---- MODULE Spec2Model ----
(***************************************************************************)
(* Phishing-Email-Detection-and-Reporting-System: the message handlers of  *)
(* src/src/smtp_server.py (handle_smtp_email behind                        *)
(* RegisteredUserSMTPHandler.handle_DATA) and of                           *)
(* src/src/phishing_detector.py (PhishingDetector.handle_DATA), over the   *)
(* record store of src/src/database.py and src/src/models.py; and the text *)
(* functions of PhishingDetector.preprocess_email, applied one after the   *)
(* other to a message and alone to a text.                                 *)
(*                                                                         *)
(* Text is a sequence of one-character strings, so that split('@'),        *)
(* split('.'), lower() and strip() are computed as the code computes them. *)
(* A probability is a fixed-point number in millionths (1.0 = 1000000).    *)
(***************************************************************************)
EXTENDS Integers, Sequences, FiniteSets, TLC

VARIABLES
    program,            \* what runs: one of the two servers, the text functions
                        \* alone, or the clients of the record store
    whitelist_domains,  \* DETECTOR.whitelist_domains, set once at startup
    reply_enabled,      \* REPLY_CFG["enabled"], fixed at startup
    EmailEvent,         \* the EmailEvent table, in id order
    Prediction,         \* the Prediction table, in id order
    TrustedDomain,      \* the TrustedDomain table, as a set of rows
    h,                  \* the locals and position of the handler of the current message
    nmsgs,              \* messages received so far
    pre                 \* the locals and position of a call of the text functions,
                        \* or of the calls of the clients of the record store

vars == <<program, whitelist_domains, reply_enabled, EmailEvent, Prediction,
          TrustedDomain, h, nmsgs, pre>>

-----------------------------------------------------------------------------
(* Bounds *)

\* Messages delivered to the handler in one behaviour.
MaxMsgs == 1

\* Deliveries of one message: the first one and the retries after a 421.
MaxAttempts == 2

\* Clients that call the record store at the same time.
MaxClients == 2

\* Pieces that make up a text given to the text functions.
MaxPieces == 3

\* Parts of a multipart message.
MaxParts == 3

-----------------------------------------------------------------------------
(* Text *)

\* Python's None, as a text no input can be.
None == <<"None">>

Uppers == <<"A", "B", "C", "D", "E", "F", "G", "H", "I", "J", "K", "L", "M",
            "N", "O", "P", "Q", "R", "S", "T", "U", "V", "W", "X", "Y", "Z">>
Lowers == <<"a", "b", "c", "d", "e", "f", "g", "h", "i", "j", "k", "l", "m",
            "n", "o", "p", "q", "r", "s", "t", "u", "v", "w", "x", "y", "z">>

ToLower ==
    [c \in {Uppers[i] : i \in DOMAIN Uppers} |->
        Lowers[CHOOSE i \in DOMAIN Uppers : Uppers[i] = c]]

LowerChar(c) == IF c \in DOMAIN ToLower THEN ToLower[c] ELSE c

\* A character outside ASCII is written by the name of its code point.
SoftHyphen == "U+00AD"
CapitalIDot == "U+0130"
CombiningDot == "U+0307"

\* str.lower(): character by character, but for the capital I with a dot,
\* whose lower case is an i and a combining dot
RECURSIVE LowerFrom(_, _)
LowerFrom(s, i) ==
    IF i > Len(s) THEN <<>>
    ELSE (IF s[i] = CapitalIDot THEN <<"i", CombiningDot>> ELSE <<LowerChar(s[i])>>)
             \o LowerFrom(s, i + 1)

Lower(s) ==
    IF \E i \in DOMAIN s : s[i] = CapitalIDot THEN LowerFrom(s, 1)
    ELSE [i \in DOMAIN s |-> LowerChar(s[i])]

\* the space variants that the normalizer and the canonicalizer replace by a
\* space
SpaceVariants == {"U+00A0", "U+2002", "U+2003", "U+2009", "U+200A", "U+202F"}

\* str.isspace() and \s of re: of the white space of Unicode, the characters
\* that a text of the runs holds
Whitespace == {" ", "\t", "\n", "\r", "\f"} \cup SpaceVariants

IsSpace(c) == c \in Whitespace

\* str.strip()
Strip(s) ==
    LET keep == {i \in DOMAIN s : ~IsSpace(s[i])}
        Min(S) == CHOOSE x \in S : \A y \in S : x <= y
        Max(S) == CHOOSE x \in S : \A y \in S : x >= y
    IN  IF keep = {} THEN <<>> ELSE SubSeq(s, Min(keep), Max(keep))

\* Python truthiness of an Optional[str]: None and "" are false.
Truthy(s) == s # None /\ s # <<>>

\* sep in s
Contains(s, sep) == \E i \in DOMAIN s : s[i] = sep

\* s.find(sep) from position i on, 0 when there is none
RECURSIVE Find(_, _, _)
Find(s, sep, i) ==
    IF i > Len(s) THEN 0 ELSE IF s[i] = sep THEN i ELSE Find(s, sep, i + 1)

\* s.split(sep), the list of the pieces
RECURSIVE Split(_, _)
Split(s, sep) ==
    LET i == Find(s, sep, 1)
    IN  IF i = 0 THEN <<s>>
        ELSE <<SubSeq(s, 1, i - 1)>> \o Split(SubSeq(s, i + 1, Len(s)), sep)

\* sep.join(parts)
RECURSIVE Join(_, _)
Join(parts, sep) ==
    IF Len(parts) = 0 THEN <<>>
    ELSE IF Len(parts) = 1 THEN parts[1]
    ELSE parts[1] \o <<sep>> \o Join(Tail(parts), sep)

\* parts[-1]
Last(parts) == parts[Len(parts)]

\* parts[-2:]
LastTwo(parts) ==
    IF Len(parts) <= 2 THEN parts ELSE SubSeq(parts, Len(parts) - 1, Len(parts))

\* hashlib.sha256(...).hexdigest(): an injection, kept symbolic.
Sha256(s) == <<"sha256">> \o s

-----------------------------------------------------------------------------
(* Domains and addresses of the runs *)

accounts_google_com == <<"a", "c", "c", "o", "u", "n", "t", "s", ".", "g", "o", "o", "g", "l", "e", ".", "c", "o", "m">>
instagram_com == <<"i", "n", "s", "t", "a", "g", "r", "a", "m", ".", "c", "o", "m">>
Trusted_Example == <<"T", "r", "u", "s", "t", "e", "d", ".", "E", "x", "a", "m", "p", "l", "e">>
evil_test == <<"e", "v", "i", "l", ".", "t", "e", "s", "t">>
Evil_Test == <<"E", "v", "i", "l", ".", "T", "e", "s", "t">>

\* envelope.mail_from values
MalloryAddr == <<"u", "s", "e", "r", "@", "m", "a", "l", "l", "o", "r", "y", ".", "t", "e", "s", "t">>
RelayAddr == <<"B", "o", "b", "@", "M", "a", "i", "l", ".", "G", "m", "a", "i", "l", ".", "C", "O", "M">>
EveAddr == <<"e", "v", "e", "@", "e", "v", "i", "l", ".", "t", "e", "s", "t">>
LocalAddr == <<"p", "o", "s", "t", "m", "a", "s", "t", "e", "r">>

\* addresses a message can carry in a body cue or in a header
CeoCue == <<"C", "E", "O", "@", "T", "r", "u", "s", "t", "e", "d", ".", "E", "x", "a", "m", "p", "l", "e">>
EveCue == <<"E", "v", "e", "@", "E", "v", "i", "l", ".", "T", "e", "s", "t">>
ReplyId == <<"i", "d", "4", "2", "@", "t", "r", "u", "s", "t", "e", "d", ".", "e", "x", "a", "m", "p", "l", "e">>

\* a Message-Id header value
MsgId1 == <<"<", "m", "1", "@", "m", "a", "l", "l", "o", "r", "y", ".", "t", "e", "s", "t", ">">>

-----------------------------------------------------------------------------
(* Startup: the whitelist set and the reply switch *)

\* PhishingDetector.__init__: the built-in whitelist
DefaultWhitelist ==
    {<<"g", "o", "o", "g", "l", "e", ".", "c", "o", "m">>,
     accounts_google_com,
     <<"g", "m", "a", "i", "l", ".", "c", "o", "m">>,
     <<"r", "e", "d", "d", "i", "t", "m", "a", "i", "l", ".", "c", "o", "m">>,
     <<"r", "e", "d", "d", "i", "t", ".", "c", "o", "m">>,
     <<"g", "i", "t", "h", "u", "b", ".", "c", "o", "m">>,
     <<"m", "i", "c", "r", "o", "s", "o", "f", "t", ".", "c", "o", "m">>,
     <<"a", "m", "a", "z", "o", "n", ".", "c", "o", "m">>,
     <<"p", "a", "y", "p", "a", "l", ".", "c", "o", "m">>,
     <<"a", "p", "p", "l", "e", ".", "c", "o", "m">>,
     <<"l", "i", "n", "k", "e", "d", "i", "n", ".", "c", "o", "m">>,
     <<"t", "w", "i", "t", "t", "e", "r", ".", "c", "o", "m">>,
     <<"f", "a", "c", "e", "b", "o", "o", "k", ".", "c", "o", "m">>,
     instagram_com}

\* smtp_server._resolve_whitelist: its own defaults
RouterDefaults == DefaultWhitelist \ {accounts_google_com}

\* phishing_detector.main: its own defaults
DetectorMainDefaults == DefaultWhitelist \ {accounts_google_com, instagram_com}

\* None where a set of domains is expected
NoSet == {None}

\* The command lines of the runs:
\*   --no-whitelist --reply,  (no option),  --whitelist Trusted.Example --reply
\* (phishing_detector.main has no --reply option and sends no reply).
CommandLines ==
    {[no_whitelist |-> TRUE,  whitelist |-> {}, reply |-> TRUE],
     [no_whitelist |-> FALSE, whitelist |-> {}, reply |-> FALSE],
     [no_whitelist |-> FALSE, whitelist |-> {Trusted_Example}, reply |-> TRUE]}

_resolve_whitelist(a) ==
    IF a.no_whitelist THEN {}
    ELSE IF a.whitelist = {} THEN NoSet
    ELSE RouterDefaults \cup {Lower(domain) : domain \in a.whitelist}

main_whitelist_domains(a) ==
    IF a.no_whitelist THEN {}
    ELSE IF a.whitelist = {} THEN NoSet
    ELSE DetectorMainDefaults \cup {Lower(domain) : domain \in a.whitelist}

PhishingDetector_init(whitelist_arg) ==
    IF whitelist_arg = NoSet THEN DefaultWhitelist ELSE whitelist_arg

-----------------------------------------------------------------------------
(* Pure functions of smtp_server.py and phishing_detector.py *)

hash_email(email) ==
    IF ~Truthy(email) THEN <<>>
    ELSE LET normalized == Lower(Strip(email))
         IN  IF normalized = <<>> THEN <<>> ELSE Sha256(normalized)

get_sender_domain(sender_email) ==
    IF ~Truthy(sender_email) \/ ~Contains(sender_email, "@") THEN <<>>
    ELSE Lower(Last(Split(sender_email, "@")))

\* 1.0 and the two thresholds of _phishing_risk_level, in millionths
One == 1000000
HighThreshold == 850000
MediumThreshold == 550000

\* (a variant whose thresholds are open: > where the code has >=)
_phishing_risk_level_open(probability) ==
    IF probability > HighThreshold THEN "HIGH"
    ELSE IF probability > MediumThreshold THEN "MEDIUM"
    ELSE "LOW"

_phishing_risk_level(probability) ==
    IF probability >= HighThreshold THEN "HIGH"
    ELSE IF probability >= MediumThreshold THEN "MEDIUM"
    ELSE "LOW"

_message_id_hash(raw_message) ==
    IF raw_message.parses /\ Truthy(raw_message.message_id)
    THEN Sha256(raw_message.message_id)
    ELSE None

\* (a variant without the parent-domain rule)
is_whitelisted_exact(email_address) ==
    IF ~Truthy(email_address) \/ ~Contains(email_address, "@") THEN FALSE
    ELSE Lower(Last(Split(email_address, "@"))) \in whitelist_domains

is_whitelisted(email_address) ==
    IF ~Truthy(email_address) \/ ~Contains(email_address, "@") THEN FALSE
    ELSE LET domain == Lower(Last(Split(email_address, "@")))
             parts == Split(domain, ".")
         IN  \/ domain \in whitelist_domains
             \/ /\ Len(parts) > 2
                /\ Join(LastTwo(parts), ".") \in whitelist_domains

\* The three body patterns, then X-Original-From, then In-Reply-To; the first
\* address found is returned in lower case.
get_original_sender(raw_message) ==
    IF raw_message.body_cue # None THEN Lower(raw_message.body_cue)
    ELSE IF Truthy(raw_message.x_original_from) THEN Lower(raw_message.x_original_from)
    ELSE IF Truthy(raw_message.in_reply_to) THEN Lower(raw_message.in_reply_to)
    ELSE None

\* preprocess_email returns None (ok = FALSE) when parsing raises.
preprocess_email(raw_email) ==
    IF ~raw_email.parses
    THEN [ok |-> FALSE, original_sender |-> None, subject |-> None, body |-> None]
    ELSE [ok |-> TRUE, original_sender |-> get_original_sender(raw_email),
          subject |-> raw_email.subject, body |-> raw_email.body]

-----------------------------------------------------------------------------
(* The text functions of phishing_detector.py *)

\* the characters the normalizer and the canonicalizer replace by a space
ZeroWidth == {"U+200B", "U+200C", "U+200D", "U+FEFF"}
BidiControls ==
    {"U+200E", "U+200F", "U+202A", "U+202B", "U+202C", "U+202D", "U+202E",
     "U+2060", "U+180E", "U+061C"}

\* of the combining marks both functions delete (U+0300 to U+036F and further
\* ranges), those a text of the runs holds
CombiningMarks == {"U+0301", CombiningDot}

\* the characters [{}!;%@#~^*] of _clean_text
StructuralSymbols == {"{", "}", "!", ";", "%", "@", "#", "~", "^", "*"}

\* [a-z] under re.IGNORECASE: the ASCII letters and the four characters whose
\* case folding is one of them
LettersIgnoreCase ==
    {Lowers[i] : i \in DOMAIN Lowers} \cup {Uppers[i] : i \in DOMAIN Uppers}
        \cup {CapitalIDot, "U+0131", "U+017F", "U+212A"}

\* re.sub of a class of characters: each character of chars becomes by
RECURSIVE SubChars(_, _, _)
SubChars(s, chars, by) ==
    IF s = <<>> THEN <<>>
    ELSE (IF Head(s) \in chars THEN by ELSE <<Head(s)>>)
             \o SubChars(Tail(s), chars, by)

\* the length of the longest prefix of s made of characters of chars
RECURSIVE PrefixIn(_, _)
PrefixIn(s, chars) ==
    IF s = <<>> \/ Head(s) \notin chars THEN 0 ELSE 1 + PrefixIn(Tail(s), chars)

\* the length of the longest prefix of s made of characters outside chars
RECURSIVE PrefixNotIn(_, _)
PrefixNotIn(s, chars) ==
    IF s = <<>> \/ Head(s) \in chars THEN 0 ELSE 1 + PrefixNotIn(Tail(s), chars)

\* s[i:], counting from 1
From(s, i) == SubSeq(s, i, Len(s))

\* re.sub of the runs of min or more characters of chars: each becomes a space
RECURSIVE SubRuns(_, _, _)
SubRuns(s, chars, min) ==
    IF s = <<>> THEN <<>>
    ELSE LET n == PrefixIn(s, chars)
         IN  IF n = 0 THEN <<Head(s)>> \o SubRuns(Tail(s), chars, min)
             ELSE (IF n >= min THEN <<" ">> ELSE SubSeq(s, 1, n))
                      \o SubRuns(From(s, n + 1), chars, min)

\* html.entities.html5, for the names that the letters a, h, i, m, p, x, y
\* spell: "amp" is the only one of them that is known without its ';'
html5 ==
    {<<<<"a", "m", "p">>, <<"&">>>>,
     <<<<"a", "m", "p", ";">>, <<"&">>>>,
     <<<<"a", "p", ";">>, <<"U+2248">>>>,
     <<<<"i", "i", ";">>, <<"U+2148">>>>,
     <<<<"m", "a", "p", ";">>, <<"U+21A6">>>>,
     <<<<"m", "p", ";">>, <<"U+2213">>>>,
     <<<<"p", "h", "i", ";">>, <<"U+03C6">>>>,
     <<<<"p", "i", ";">>, <<"U+03C0">>>>,
     <<<<"p", "m", ";">>, <<"U+00B1">>>>,
     <<<<"x", "i", ";">>, <<"U+03BE">>>>,
     <<<<"x", "m", "a", "p", ";">>, <<"U+27FC">>>>}

\* html.unescape: at each '&', the longest run of name characters (the
\* characters other than tab, line end, form feed, blank, '<', '&', '#' and
\* ';') and a ';' after it are looked up; failing that, the longest proper
\* prefix of two characters or more that is a known name is decoded; else the
\* '&' stays. (No text of the runs holds a '#', so none holds a numeric
\* reference.)
RECURSIVE html_unescape(_)
html_unescape(s) ==
    IF ~Contains(s, "&") THEN s
    ELSE IF Head(s) # "&" THEN <<Head(s)>> \o html_unescape(Tail(s))
    ELSE LET html5_names == {e[1] : e \in html5}
             html5_get(name) == (CHOOSE e \in html5 : e[1] = name)[2]
             rest == Tail(s)
             n == PrefixNotIn(rest, {"\t", "\n", "\f", " ", "<", "&", "#", ";"})
             semi == IF n < Len(rest) /\ rest[n + 1] = ";" THEN 1 ELSE 0
             ref == SubSeq(rest, 1, n + semi)
             known == {x \in 2..(Len(ref) - 1) : SubSeq(ref, 1, x) \in html5_names}
         IN  IF n = 0 THEN <<"&">> \o html_unescape(rest)
             ELSE IF ref \in html5_names
             THEN html5_get(ref) \o html_unescape(From(rest, Len(ref) + 1))
             ELSE IF known # {}
             THEN LET x == CHOOSE x \in known : \A y \in known : y <= x
                  IN  html5_get(SubSeq(ref, 1, x)) \o html_unescape(From(rest, x + 1))
             ELSE <<"&">> \o ref \o html_unescape(From(rest, Len(ref) + 1))

\* re.sub(r'(\S)\u00AD(\S)', r'\1 \2', text)
RECURSIVE SoftHyphenJoin(_)
SoftHyphenJoin(s) ==
    IF Len(s) < 3 THEN s
    ELSE IF ~IsSpace(s[1]) /\ s[2] = SoftHyphen /\ ~IsSpace(s[3])
    THEN <<s[1], " ", s[3]>> \o SoftHyphenJoin(From(s, 4))
    ELSE <<s[1]>> \o SoftHyphenJoin(Tail(s))

\* str.split(): the words between runs of whitespace
str_split(s) ==
    LET t == Strip(SubRuns(s, Whitespace, 1))
    IN  IF t = <<>> THEN <<>> ELSE Split(t, " ")

\* _remove_invisible_unicode: entity decoding, the soft hyphen, the zero-width
\* and bidi characters, the space variants, the combining marks, and runs of
\* spaces, in that order.
_remove_invisible_unicode(text) ==
    IF ~Truthy(text) THEN <<>>
    ELSE LET decoded == html_unescape(text)
             joined == SubChars(SoftHyphenJoin(decoded), {SoftHyphen}, <<>>)
             spaced == SubChars(joined, ZeroWidth \cup BidiControls \cup SpaceVariants,
                                <<" ">>)
             unmarked == SubChars(spaced, CombiningMarks, <<>>)
         IN  SubRuns(unmarked, {" "}, 2)

\* re.sub(r'&[a-z]+;', ' ', text, flags=re.IGNORECASE)
RECURSIVE NamedRefsToSpace(_)
NamedRefsToSpace(s) ==
    IF s = <<>> THEN <<>>
    ELSE IF Head(s) # "&" THEN <<Head(s)>> \o NamedRefsToSpace(Tail(s))
    ELSE LET n == PrefixIn(Tail(s), LettersIgnoreCase)
         IN  IF n >= 1 /\ n + 2 <= Len(s) /\ s[n + 2] = ";"
             THEN <<" ">> \o NamedRefsToSpace(From(s, n + 3))
             ELSE <<"&">> \o NamedRefsToSpace(Tail(s))

\* re.sub(r'\n{3,}', '\n\n', text)
RECURSIVE CollapseNewlines(_)
CollapseNewlines(s) ==
    IF Len(s) < 3 THEN s
    ELSE IF s[1] = "\n" /\ s[2] = "\n" /\ s[3] = "\n" THEN CollapseNewlines(Tail(s))
    ELSE <<s[1]>> \o CollapseNewlines(Tail(s))

\* s[i:].lower().startswith(w)
StartsWithAt(s, i, w) ==
    /\ i >= 1 /\ i + Len(w) - 1 <= Len(s)
    /\ Lower(SubSeq(s, i, i + Len(w) - 1)) = w

\* the index of the last character of the line that holds s[m]
LineEnd(s, m) == m + PrefixNotIn(From(s, m), {"\n"}) - 1

\* the header names of the quoted header lines that _remove_email_artifacts
\* and _clean_forwarded_body delete
ArtifactHeaders ==
    {<<"t", "o">>,
     <<"f", "r", "o", "m">>,
     <<"d", "a", "t", "e">>,
     <<"s", "e", "n", "t">>,
     <<"c", "c">>,
     <<"b", "c", "c">>,
     <<"s", "u", "b", "j", "e", "c", "t">>,
     <<"r", "e", "p", "l", "y", "-", "t", "o">>}

ForwardedHeaders ==
    ArtifactHeaders \cup {<<"d", "e", "l", "i", "v", "e", "r", "e", "d", "-", "t", "o">>,
     <<"r", "e", "t", "u", "r", "n", "-", "p", "a", "t", "h">>}

\* where a match of  ^\s*(?:To|From|...):\s*.+?$  that starts at i ends, 0 when
\* there is none: i is the start of a line; white space, which may run over
\* line ends, leads to a header name and its ':'; the match ends with the line
\* of the first character after the white space that follows the ':' (of the
\* last character of that white space which is no line end, when the text ends
\* with it).
HeaderLineEnd(s, i, headers) ==
    IF ~(i = 1 \/ s[i - 1] = "\n") THEN 0
    ELSE LET j == i + PrefixIn(From(s, i), Whitespace)
             hits == {w \in headers : StartsWithAt(s, j, w \o <<":">>)}
         IN  IF hits = {} THEN 0
             ELSE LET w == CHOOSE w \in hits : TRUE
                      k == j + Len(w) + 1
                      m0 == k + PrefixIn(From(s, k), Whitespace)
                      starts == {m \in k..m0 : m <= Len(s) /\ s[m] # "\n"}
                  IN  IF starts = {} THEN 0
                      ELSE LineEnd(s, CHOOSE m \in starts : \A x \in starts : x <= m)

\* re.sub(r'^\s*(?:To|From|...):\s*.+?$', '', text, MULTILINE | IGNORECASE),
\* from the index i on
RECURSIVE RemoveHeaderLines(_, _, _)
RemoveHeaderLines(s, i, headers) ==
    IF i > Len(s) THEN <<>>
    ELSE LET e == HeaderLineEnd(s, i, headers)
         IN  IF e > 0 THEN RemoveHeaderLines(s, e + 1, headers)
             ELSE <<s[i]>> \o RemoveHeaderLines(s, i + 1, headers)

\* _remove_email_artifacts: of its passes, a text of the runs can only match
\* the quoted header lines, the runs of line ends and the runs of blanks (the
\* other passes need "wrote:", a '>' or '|' at the start of a line, '=', '{',
\* '/' or the word boundary or delimiter, which no text of the runs holds).
_remove_email_artifacts(text) ==
    IF ~Truthy(text) THEN <<>>
    ELSE LET headers == RemoveHeaderLines(text, 1, ArtifactHeaders)
             lines == CollapseNewlines(headers)
             blanks == SubRuns(lines, {" ", "\t"}, 1)
         IN  Strip(blanks)

\* _remove_signatures: no text of the runs holds one of its six trailers (a
\* line "--", a rule of ten '_' or '=', "Best regards", "Thanks", "Sent from"
\* at the start of a line); its strip() remains.
_remove_signatures(text) == Strip(text)

\* _clean_forwarded_body: of its passes, a text of the runs can only match the
\* quoted header lines, _remove_signatures, the rules of five or more '-' or
\* '_', the runs of line ends and the stripping of the lines (the other passes
\* need "wrote:", '/', '=', '>' or '|' at the start of a line, or one of the
\* phrases view/read/open ... browser, unsubscribe, click here, subscribe to
\* our newsletter, follow us on, Sent from my, Get Outlook for).
_clean_forwarded_body(text) ==
    IF ~Truthy(text) THEN <<>>
    ELSE LET headers == RemoveHeaderLines(text, 1, ForwardedHeaders)
             signatures == _remove_signatures(headers)
             rules == SubRuns(signatures, {"-", "_"}, 5)
             split == Split(CollapseNewlines(rules), "\n")
             stripped == [i \in DOMAIN split |-> Strip(split[i])]
             lines == SelectSeq(stripped, LAMBDA line : line # <<>>)
         IN  Strip(Join(lines, "\n"))

\* the largest element of a set of numbers that is not empty
Maximum(S) == CHOOSE x \in S : \A y \in S : y <= x
Minimum(S) == CHOOSE x \in S : \A y \in S : x <= y

\* s.find(w), counting from 1: 0 when w is not in s
FindText(s, w) ==
    LET at == {i \in 1..(Len(s) - Len(w) + 1) : SubSeq(s, i, i + Len(w) - 1) = w}
    IN  IF at = {} THEN 0 ELSE Minimum(at)

\* the address  [a-z0-9._%+-]+@[a-z0-9.-]+\.[a-z]{2,}  that starts at s[a],
\* None when there is none: the longest local part, '@', and the domain up to
\* the letters after the last '.' that two letters or more follow.
AddressAt(s, a) ==
    LET Digits == {"0", "1", "2", "3", "4", "5", "6", "7", "8", "9"}
        LocalChars == LettersIgnoreCase \cup Digits \cup {".", "_", "%", "+", "-"}
        DomainChars == LettersIgnoreCase \cup Digits \cup {".", "-"}
        local == PrefixIn(From(s, a), LocalChars)
        d == a + local + 1
        run == PrefixIn(From(s, d), DomainChars)
        dots == {k \in (d + 1)..(d + run - 1) :
                    /\ s[k] = "."
                    /\ PrefixIn(From(s, k + 1), LettersIgnoreCase) >= 2}
    IN  IF local = 0 \/ a + local > Len(s) \/ s[a + local] # "@" \/ dots = {}
        THEN None
        ELSE LET k == Maximum(dots)
             IN  SubSeq(s, a, k + PrefixIn(From(s, k + 1), LettersIgnoreCase))

\* re.search(r'from[:\s]+<?(address)>?', raw_body, re.IGNORECASE): the address
\* of the first sender cue of the body, None when there is none. (The second
\* pattern, "forwarded ... from", matches only where this one does; no text of
\* the runs holds the third cue, "originally sent by".)
CueAt(s, p) ==
    IF ~StartsWithAt(s, p, <<"f", "r", "o", "m">>) THEN None
    ELSE LET seps == PrefixIn(From(s, p + 4), Whitespace \cup {":"})
             a == p + 4 + seps
         IN  IF seps = 0 THEN None
             ELSE IF a <= Len(s) /\ s[a] = "<" THEN AddressAt(s, a + 1)
             ELSE AddressAt(s, a)

body_cue(raw_body) ==
    LET cues == {p \in DOMAIN raw_body : CueAt(raw_body, p) # None}
    IN  IF cues = {} THEN None ELSE CueAt(raw_body, Minimum(cues))

\* where the value of a header that starts at s[k] (after "Subject:") begins
\* and ends for  \s*(.+?)  followed by the end of a line: 0 when it has no value
ValueStart(s, k) ==
    LET m0 == k + PrefixIn(From(s, k), Whitespace)
        starts == {m \in k..m0 : m <= Len(s) /\ s[m] # "\n"}
    IN  IF starts = {} THEN 0 ELSE Maximum(starts)

\* header_pattern of _extract_forwarded_content (DOTALL | IGNORECASE):
\*   From:\s*.+?\n(?:.*?\n)*?Subject:\s*(.+?)\n(.+)
\* a "From:", one character or more and a line end, then, at the start of a
\* line, "Subject:", its value up to a line end, and the rest of the body, of
\* one character or more. (No text of the runs holds '\r'.)
SubjectTail(s, q) ==
    LET k == q + 8
        m0 == k + PrefixIn(From(s, k), Whitespace)
        ends == [c \in k..m0 |->
                    {n \in (c + 1)..(Len(s) - 1) : s[n] = "\n"}]
        starts == {c \in k..m0 : c <= Len(s) /\ ends[c] # {}}
    IN  IF starts = {} THEN [found |-> FALSE, subject |-> <<>>, rest |-> <<>>]
        ELSE LET c == Maximum(starts)
                 n == Minimum(ends[c])
             IN  [found |-> TRUE, subject |-> SubSeq(s, c, n - 1),
                  rest |-> From(s, n + 1)]

HeaderBlock(s) ==
    LET subjects(p) ==
            {q \in (p + 7)..Len(s) :
                /\ s[q - 1] = "\n"
                /\ StartsWithAt(s, q, <<"s", "u", "b", "j", "e", "c", "t", ":">>)
                /\ SubjectTail(s, q).found}
        froms == {p \in DOMAIN s :
                    /\ StartsWithAt(s, p, <<"f", "r", "o", "m", ":">>)
                    /\ subjects(p) # {}}
    IN  IF froms = {} THEN [found |-> FALSE, subject |-> <<>>, rest |-> <<>>]
        ELSE SubjectTail(s, Minimum(subjects(Minimum(froms))))

\* the banners of forwarded messages, in the order of the code
forwarding_markers ==
    <<<<"-", "-", "-", "-", "-", "-", "-", "-", "-", "-", " ", "F", "o", "r", "w", "a", "r", "d", "e", "d", " ", "m", "e", "s", "s", "a", "g", "e", " ", "-", "-", "-", "-", "-", "-", "-", "-", "-">>,
      <<"-", "-", "-", "-", "-", "-", "-", "-", "-", "-", " ", "F", "o", "r", "w", "a", "r", "d", "e", "d", " ", "m", "e", "s", "s", "a", "g", "e", " ", "-", "-", "-", "-", "-", "-", "-", "-", "-", "-">>,
      <<"-", "-", "-", "-", "-", "-", "-", " ", "F", "o", "r", "w", "a", "r", "d", "e", "d", " ", "m", "e", "s", "s", "a", "g", "e", " ", "-", "-", "-", "-", "-", "-", "-">>,
      <<"B", "e", "g", "i", "n", " ", "f", "o", "r", "w", "a", "r", "d", "e", "d", " ", "m", "e", "s", "s", "a", "g", "e", ":">>,
      <<"F", "o", "r", "w", "a", "r", "d", "e", "d", " ", "b", "y", " ", "G", "m", "a", "i", "l">>,
      <<"-", "-", "-", "-", "O", "r", "i", "g", "i", "n", "a", "l", " ", "M", "e", "s", "s", "a", "g", "e", "-", "-", "-", "-">>,
      <<"-", "-", "-", "-", "-", "O", "r", "i", "g", "i", "n", "a", "l", " ", "M", "e", "s", "s", "a", "g", "e", "-", "-", "-", "-", "-">>,
      <<"-", "-", "-", " ", "F", "o", "r", "w", "a", "r", "d", "e", "d", " ", "m", "e", "s", "s", "a", "g", "e", " ", "-", "-", "-">>>>

\* re.search(r'\n\s*Subject:\s*(.+?)(?:\n|$)', forwarded_content, IGNORECASE):
\* the index of the last character of the match, 0 when there is none
SubjectLineEnd(s) ==
    LET ends == [u \in DOMAIN s |->
                   IF s[u] # "\n" THEN 0
                   ELSE LET v == u + 1 + PrefixIn(From(s, u + 1), Whitespace)
                            m == IF StartsWithAt(s, v, <<"s", "u", "b", "j", "e", "c", "t", ":">>)
                                 THEN ValueStart(s, v + 8) ELSE 0
                        IN  IF m = 0 THEN 0
                            ELSE IF LineEnd(s, m) < Len(s) THEN LineEnd(s, m) + 1
                            ELSE Len(s)]
        hits == {u \in DOMAIN s : ends[u] > 0}
    IN  IF hits = {} THEN 0 ELSE ends[Minimum(hits)]

\* the body after the first banner, from marker number i on, that a
\* "Subject:" line follows: None when there is none
RECURSIVE AfterMarker(_, _)
AfterMarker(body, i) ==
    IF i > Len(forwarding_markers) THEN None
    ELSE LET marker == forwarding_markers[i]
             at == FindText(body, marker)
             forwarded_content == From(body, at + Len(marker))
             end == SubjectLineEnd(forwarded_content)
         IN  IF at > 0 /\ end > 0 THEN From(forwarded_content, end + 1)
             ELSE AfterMarker(body, i + 1)

\* _extract_forwarded_content(subject, body): the subject without its
\* "Fwd:" or "Fw:", and the body after the header block, else after a banner
\* and its "Subject:" line, else the whole body, through _clean_forwarded_body
_extract_forwarded_content(subject, body) ==
    LET stripped == IF StartsWithAt(subject, 1, <<"f", "w", "d", ":">>)
                    THEN Strip(From(subject, 5))
                    ELSE IF StartsWithAt(subject, 1, <<"f", "w", ":">>)
                    THEN Strip(From(subject, 4))
                    ELSE subject
        match == HeaderBlock(body)
        remaining == AfterMarker(body, 1)
    IN  IF match.found
        THEN [original_subject |->
                  IF stripped = <<>> \/ FindText(Lower(body), Lower(stripped)) > 0
                  THEN Strip(match.subject) ELSE stripped,
              original_body |-> _clean_forwarded_body(match.rest)]
        ELSE [original_subject |-> stripped,
              original_body |-> IF remaining # None
                                THEN _clean_forwarded_body(remaining)
                                ELSE _clean_forwarded_body(body)]

\* re.sub(r'\b[a-z0-9._%+-]+@[a-z0-9.-]+\.[a-z]{2,}\b', ' ', text, re.IGNORECASE)
\* from s[i] on: the leftmost addresses between word boundaries, each with the
\* longest domain that ends at one, become a space.
RECURSIVE RedactAddresses(_, _)
RedactAddresses(s, i) ==
    IF i > Len(s) THEN <<>>
    ELSE LET Digits == {"0", "1", "2", "3", "4", "5", "6", "7", "8", "9"}
             LocalChars == LettersIgnoreCase \cup Digits \cup {".", "_", "%", "+", "-"}
             DomainChars == LettersIgnoreCase \cup Digits \cup {".", "-"}
             IsWord(k) == /\ k >= 1 /\ k <= Len(s)
                          /\ s[k] \in LettersIgnoreCase \cup Digits \cup {"_"}
             Letters(k) == PrefixIn(From(s, k + 1), LettersIgnoreCase)
             local == PrefixIn(From(s, i), LocalChars)
             d == i + local + 1
             run == PrefixIn(From(s, d), DomainChars)
             dots == {k \in (d + 1)..(d + run - 1) :
                         /\ s[k] = "."
                         /\ Letters(k) >= 2
                         /\ ~IsWord(k + Letters(k) + 1)}
         IN  IF /\ IsWord(i - 1) # IsWord(i)
                /\ local > 0 /\ i + local <= Len(s) /\ s[i + local] = "@"
                /\ dots # {}
             THEN <<" ">>
                      \o RedactAddresses(s, Maximum(dots) + Letters(Maximum(dots)) + 1)
             ELSE <<s[i]>> \o RedactAddresses(s, i + 1)

\* the passes of _clean_text before its degenerate rule: entity decoding, the
\* invisible characters, the structural symbols, the addresses, the rules and
\* the dots, lower case, white space, and the words that mean something. (The
\* other passes
\* need '#', ':' with ';' or "!important", '{', '/', "wrote:", a run of 10
\* digits, of 32 hexadecimal or of 40 base64 characters, or one of the phrases
\* view/read/open this email in your browser, unsubscribe, manage preferences,
\* update email, update settings, sent from my, which no text of the runs
\* holds.)
_clean_text_passes(text) ==
    LET decoded == NamedRefsToSpace(html_unescape(text))
        visible == SubChars(decoded, ZeroWidth \cup BidiControls, <<" ">>)
        joined == SubChars(SoftHyphenJoin(visible), {SoftHyphen}, <<" ">>)
        spaced == SubChars(joined, SpaceVariants, <<" ">>)
        unmarked == SubChars(spaced, CombiningMarks, <<>>)
        symbols == SubChars(unmarked, StructuralSymbols, <<" ">>)
        redacted == RedactAddresses(symbols, 1)
        rules == SubRuns(redacted, {"_", "=", "-", "|", "\\", "/"}, 3)
        dots == SubRuns(rules, {"."}, 3)
        lowered == Lower(dots)
        meaningful_chars == {<<"i">>, <<"a">>}
        words == SelectSeq(str_split(lowered),
                           LAMBDA w : Len(w) > 1 \/ w \in meaningful_chars)
    IN  Join(words, " ")

\* (a variant without the degenerate rule)
_clean_text_any_length(text) ==
    IF ~Truthy(text) THEN <<>> ELSE _clean_text_passes(text)

\* _clean_text: "" when less than 5 characters or less than 2 words are left
_clean_text(text) ==
    IF ~Truthy(text) THEN <<>>
    ELSE LET kept == _clean_text_passes(text)
         IN  IF Len(kept) < 5 THEN <<>>
             ELSE IF Len(str_split(kept)) < 2 THEN <<>>
             ELSE kept

\* BeautifulSoup(...).get_text: the text outside the tags (of a document with
\* no script, style, head or comment, whose text is that of one element)
RECURSIVE get_text(_)
get_text(s) ==
    IF s = <<>> THEN <<>>
    ELSE IF Head(s) = "<" THEN get_text(From(s, PrefixNotIn(s, {">"}) + 2))
    ELSE <<Head(s)>> \o get_text(Tail(s))

\* _html_to_text: the parser decodes the entities of the text, and
\* html.unescape decodes the result again
_html_to_text(html_content) ==
    IF ~Truthy(html_content) THEN <<>>
    ELSE html_unescape(html_unescape(get_text(html_content)))

\* 'attachment', as looked for in the Content-Disposition of a part
attachment == <<"a", "t", "t", "a", "c", "h", "m", "e", "n", "t">>

\* the loop of _extract_body over msg.walk(), from part number i on (the
\* parts that hold content, in document order): a text/plain part is read
\* into body, and the loop ends when it is of more than 50 characters; the
\* first text/html part is read into html_body
RECURSIVE walk(_, _, _, _)
walk(parts, i, body, html_body) ==
    IF i > Len(parts) THEN [body |-> body, html_body |-> html_body]
    ELSE LET part == parts[i]
         IN  IF FindText(part.content_disposition, attachment) > 0
             THEN walk(parts, i + 1, body, html_body)
             ELSE IF part.content_type = "text/plain"
             THEN IF Truthy(part.content) /\ Len(Strip(part.content)) > 50
                  THEN [body |-> part.content, html_body |-> html_body]
                  ELSE walk(parts, i + 1, part.content, html_body)
             ELSE IF part.content_type = "text/html" /\ ~Truthy(html_body)
             THEN walk(parts, i + 1, body, part.content)
             ELSE walk(parts, i + 1, body, html_body)

\* _extract_body(msg): the parts of a multipart message, else the single
\* body; the HTML only when no text was read; then _remove_email_artifacts
_extract_body(msg) ==
    LET read == IF msg.is_multipart THEN walk(msg.parts, 1, <<>>, <<>>)
                ELSE IF msg.parts[1].content_type = "text/plain"
                THEN [body |-> msg.parts[1].content, html_body |-> <<>>]
                ELSE IF msg.parts[1].content_type = "text/html"
                THEN [body |-> <<>>, html_body |-> msg.parts[1].content]
                ELSE [body |-> <<>>, html_body |-> <<>>]
        body == IF ~Truthy(read.body) /\ Truthy(read.html_body)
                THEN _html_to_text(read.html_body) ELSE read.body
    IN  _remove_email_artifacts(body)

-----------------------------------------------------------------------------
(* The record store: database.py over models.py *)

\* User rows (id, emailHash), created before the runs by create_user
User ==
    {[id |-> 1, emailHash |-> Sha256(Lower(MalloryAddr))],
     [id |-> 2, emailHash |-> Sha256(Lower(RelayAddr))],
     [id |-> 3, emailHash |-> Sha256(Lower(LocalAddr))]}

\* the id of the matching User, 0 (None) when there is none
get_user_by_email_hash(email_hash) ==
    IF \E u \in User : u.emailHash = email_hash
    THEN (CHOOSE u \in User : u.emailHash = email_hash).id
    ELSE 0

\* EmailEvent.messageIdHash is unique; NULLs do not collide.
EmailEventUnique(message_id_hash) ==
    \/ message_id_hash = None
    \/ \A i \in DOMAIN EmailEvent : EmailEvent[i].messageIdHash # message_id_hash

NewEmailEvent(user_id, sender_domain, is_forwarded, message_id_hash) ==
    [id |-> Len(EmailEvent) + 1, userId |-> user_id, senderDomain |-> sender_domain,
     isForwarded |-> is_forwarded, messageIdHash |-> message_id_hash,
     msg |-> nmsgs]

\* log_prediction raises unless the event exists and has no prediction yet.
CanLogPrediction(email_event_id) ==
    /\ \E i \in DOMAIN EmailEvent : EmailEvent[i].id = email_event_id
    /\ \A i \in DOMAIN Prediction : Prediction[i].emailEventId # email_event_id

NewPrediction(email_event_id, phishing_prob, predicted_label, risk_level) ==
    [id |-> Len(Prediction) + 1, emailEventId |-> email_event_id,
     phishingProbability |-> phishing_prob, predictedLabel |-> predicted_label,
     riskLevel |-> risk_level]

is_trusted_domain(user_id, domain) ==
    \E row \in TrustedDomain : row.userId = user_id /\ row.domain = domain

\* The (user, domain) pairs some client of the store marks as trusted.
\* add_trusted_domain stores the domain as it is given: in lower case, in
\* mixed case, or empty.
TrustedCandidates ==
    {[userId |-> 1, domain |-> evil_test],
     [userId |-> 1, domain |-> Evil_Test],
     [userId |-> 3, domain |-> <<>>]}

-----------------------------------------------------------------------------
(* Inputs *)

\* envelope.mail_from
Senders == {MalloryAddr, RelayAddr, EveAddr, LocalAddr}

\* envelope.content, by what the parser and get_original_sender read of it:
\* whether it parses, the address of a sender cue in the body, the addresses
\* in X-Original-From and In-Reply-To, the Message-Id, and the canonical
\* subject and body that _clean_text leaves of it.
Unparseable ==
    [parses |-> FALSE, body_cue |-> None, x_original_from |-> None,
     in_reply_to |-> None, message_id |-> None, subject |-> None, body |-> None]

\* what _clean_text leaves of a subject and of a body that carry signal
TaxDue == <<"t", "a", "x", " ", "d", "u", "e">>
PayNow == <<"p", "a", "y", " ", "n", "o", "w">>

\* a message whose subject is empty and whose body is "hi": _clean_text leaves
\* the empty string of both
Degenerate ==
    [parses |-> TRUE, body_cue |-> None, x_original_from |-> None,
     in_reply_to |-> None, message_id |-> None, subject |-> <<>>, body |-> <<>>]

RawMessages ==
    {Unparseable, Degenerate} \cup
    {[parses |-> TRUE, body_cue |-> e[1], x_original_from |-> e[2],
      in_reply_to |-> e[3], message_id |-> m, subject |-> TaxDue,
      body |-> PayNow] :
        e \in {<<None, None, None>>, <<CeoCue, None, None>>, <<EveCue, None, None>>,
               <<None, EveCue, None>>, <<None, None, ReplyId>>,
               <<None, EveCue, ReplyId>>, <<CeoCue, EveCue, ReplyId>>},
        m \in {None, MsgId1}}

\* classify_email returns the label and the probability of that label, or raises.
Probabilities == {450000, 849999, 850000}

ClassifierResults == [label : {"legitimate", "phishing"}, probability : Probabilities]

\* classify_email(subject, body): what the loaded model may answer for the
\* text f"{subject} {body}"; the model is a file loaded at startup, and
\* nothing in the code restricts its answer for any text, the text " " included.
classify_email(subject, body) ==
    LET text == subject \o <<" ">> \o body
    IN  ClassifierResults

NoPrediction == [label |-> "", probability |-> -1]

-----------------------------------------------------------------------------
(* The handler of one message *)

OK250 == "250 OK - processed successfully"
Rejected550Sender == "550 Rejected - sender not registered"
Rejected550Parse == "550 Rejected - message could not be parsed"
TempFail421 == "421 Temp fail - try again later"
Accepted250 == "250 Message accepted for delivery"

\* pre while no text function is called on its own
NoCall == [pc |-> "none"]

Idle ==
    [pc |-> "idle", sender_email |-> None, raw |-> Unparseable, user_id |-> 0,
     original_sender |-> None, check_address |-> None, check_domain |-> <<>>,
     message_id_hash |-> None, email_event_id |-> 0, trusted_address |-> None,
     lookup |-> {}, prediction |-> NoPrediction, predicted_label |-> "",
     phishing_probability |-> -1, risk_level |-> "", reason |-> "",
     resp |-> "", trace |-> <<>>, attempt |-> 1, previous |-> ""]

\* h.trace lists, in order, the calls the handler has completed; h.lookup is
\* the TrustedDomain table as the handler's is_trusted_domain call read it;
\* h.attempt counts the deliveries of the message, and h.previous is the call
\* that ended the delivery before this one.
Did(step) == \E i \in DOMAIN h.trace : h.trace[i] = step

\* a return statement of handle_smtp_email
Return(hh, step, resp) ==
    [hh EXCEPT !.pc = "done", !.resp = resp, !.trace = Append(@, step)]

\* (a variant that acknowledges the message although the handler raised)
handle_DATA_swallow(hh, step) == Return(hh, step, OK250)

\* RegisteredUserSMTPHandler.handle_DATA: an exception of handle_smtp_email
\* becomes the transient failure.
handle_DATA_except(hh, step) == Return(hh, step, TempFail421)

StoreUnchanged == UNCHANGED <<EmailEvent, Prediction, TrustedDomain>>
ConfigUnchanged == UNCHANGED <<program, whitelist_domains, reply_enabled>>
TextUnchanged == UNCHANGED pre

\* aiosmtpd delivers a message: handle_DATA calls handle_smtp_email.
Receive ==
    /\ program = "smtp_server"
    /\ h.pc \in {"idle", "done"}
    /\ nmsgs < MaxMsgs
    /\ \E sender_email \in Senders, raw_message \in RawMessages :
          h' = [Idle EXCEPT !.pc = "get_user", !.sender_email = sender_email,
                            !.raw = raw_message]
    /\ nmsgs' = nmsgs + 1
    /\ StoreUnchanged /\ ConfigUnchanged /\ TextUnchanged

\* The sender's transport delivers the message again after the transient
\* failure: handle_DATA calls handle_smtp_email with the same envelope.
Retry ==
    /\ program = "smtp_server"
    /\ h.pc = "done" /\ h.resp = TempFail421
    /\ h.attempt < MaxAttempts
    /\ h' = [Idle EXCEPT !.pc = "get_user", !.sender_email = h.sender_email,
                         !.raw = h.raw, !.attempt = h.attempt + 1,
                         !.previous = h.trace[Len(h.trace)]]
    /\ UNCHANGED nmsgs /\ StoreUnchanged /\ ConfigUnchanged /\ TextUnchanged

\* (a variant that goes on with the mail of a sender that matches no User)
GetUserAnySender ==
    /\ h.pc = "get_user"
    /\ \E store_ok \in BOOLEAN :
          IF ~store_ok
          THEN h' = handle_DATA_except(h, "get_user_by_email_hash raised")
          ELSE LET user == get_user_by_email_hash(hash_email(h.sender_email))
               IN  h' = [h EXCEPT !.pc = "preprocess", !.user_id = user,
                                  !.trace = Append(@, "get_user_by_email_hash")]
    /\ UNCHANGED nmsgs /\ StoreUnchanged /\ ConfigUnchanged /\ TextUnchanged

\* user = DB_MANAGER.get_user_by_email_hash(hash_email(sender_email))
GetUser ==
    /\ h.pc = "get_user"
    /\ \E store_ok \in BOOLEAN :
          IF ~store_ok
          THEN h' = handle_DATA_except(h, "get_user_by_email_hash raised")
          ELSE LET user == get_user_by_email_hash(hash_email(h.sender_email))
               IN  IF user = 0
                   THEN h' = Return(h, "unregistered", Rejected550Sender)
                   ELSE h' = [h EXCEPT !.pc = "preprocess", !.user_id = user,
                                       !.trace = Append(@, "get_user_by_email_hash")]
    /\ UNCHANGED nmsgs /\ StoreUnchanged /\ ConfigUnchanged /\ TextUnchanged

\* (a variant that checks the direct sender although an original one was found)
PreprocessDirectSender ==
    /\ h.pc = "preprocess"
    /\ LET extracted == preprocess_email(h.raw)
       IN  IF ~extracted.ok
           THEN h' = Return(h, "preprocess_email failed", Rejected550Parse)
           ELSE h' = [h EXCEPT
                        !.pc = "log_email_event",
                        !.original_sender = extracted.original_sender,
                        !.check_address = h.sender_email,
                        !.check_domain = get_sender_domain(h.sender_email),
                        !.message_id_hash = _message_id_hash(h.raw),
                        !.trace = Append(@, "preprocess_email")]
    /\ UNCHANGED nmsgs /\ StoreUnchanged /\ ConfigUnchanged /\ TextUnchanged

\* (a variant that goes on with a message that could not be parsed)
PreprocessNoCheck ==
    /\ h.pc = "preprocess"
    /\ h' = [h EXCEPT
               !.pc = "log_email_event",
               !.check_address = h.sender_email,
               !.check_domain = get_sender_domain(h.sender_email),
               !.trace = Append(@, IF h.raw.parses THEN "preprocess_email"
                                   ELSE "preprocess_email failed")]
    /\ UNCHANGED nmsgs /\ StoreUnchanged /\ ConfigUnchanged /\ TextUnchanged

\* extracted = DETECTOR.preprocess_email(raw_message), then the effective
\* sender and the Message-Id hash
Preprocess ==
    /\ h.pc = "preprocess"
    /\ LET extracted == preprocess_email(h.raw)
           original_sender == extracted.original_sender
           original_domain == IF Truthy(original_sender)
                              THEN get_sender_domain(original_sender) ELSE None
       IN  IF ~extracted.ok
           THEN h' = Return(h, "preprocess_email failed", Rejected550Parse)
           ELSE h' = [h EXCEPT
                        !.pc = "log_email_event",
                        !.original_sender = original_sender,
                        !.check_address = IF Truthy(original_sender)
                                          THEN original_sender ELSE h.sender_email,
                        !.check_domain = IF Truthy(original_domain)
                                         THEN original_domain
                                         ELSE get_sender_domain(h.sender_email),
                        !.message_id_hash = _message_id_hash(h.raw),
                        !.trace = Append(@, "preprocess_email")]
    /\ UNCHANGED nmsgs /\ StoreUnchanged /\ ConfigUnchanged /\ TextUnchanged

\* email_event = DB_MANAGER.log_email_event(...)
LogEmailEvent ==
    /\ h.pc = "log_email_event"
    /\ \E store_ok \in BOOLEAN :
          IF ~store_ok
          THEN /\ h' = handle_DATA_except(h, "log_email_event raised")
               /\ UNCHANGED EmailEvent
          ELSE IF ~EmailEventUnique(h.message_id_hash)
          THEN /\ h' = handle_DATA_except(h, "log_email_event raised IntegrityError")
               /\ UNCHANGED EmailEvent
          ELSE LET event == NewEmailEvent(h.user_id, h.check_domain,
                                          Truthy(h.original_sender), h.message_id_hash)
               IN  /\ EmailEvent' = Append(EmailEvent, event)
                   /\ h' = [h EXCEPT !.pc = "trust", !.email_event_id = event.id,
                                     !.trace = Append(@, "log_email_event")]
    /\ UNCHANGED <<nmsgs, Prediction, TrustedDomain>> /\ ConfigUnchanged /\ TextUnchanged

\* (a variant with the probability 1.0 that PhishingDetector.handle_DATA gives
\* a whitelisted sender, taken as the phishing probability)
ExemptProbabilityOne(hh, step) ==
    [hh EXCEPT !.pc = "log_prediction",
               !.trusted_address = hh.check_address,
               !.predicted_label = "legitimate",
               !.phishing_probability = One,
               !.risk_level = _phishing_risk_level(One),
               !.reason = "trusted_domain",
               !.trace = Append(@, step)]

\* the branch "if trusted_address": the exempt verdict, without the model
Exempt(hh, step) ==
    [hh EXCEPT !.pc = "log_prediction",
               !.trusted_address = hh.check_address,
               !.predicted_label = "legitimate",
               !.phishing_probability = 0,
               !.risk_level = "LOW",
               !.reason = "trusted_domain",
               !.trace = Append(@, step)]

\* DETECTOR.is_whitelisted(check_address), else
\* DB_MANAGER.is_trusted_domain(user.id, check_domain)
TrustCheck ==
    /\ h.pc = "trust"
    /\ IF is_whitelisted(h.check_address)
       THEN h' = Exempt(h, "is_whitelisted")
       ELSE \E store_ok \in BOOLEAN :
               IF ~store_ok
               THEN h' = handle_DATA_except(h, "is_trusted_domain raised")
               ELSE IF is_trusted_domain(h.user_id, h.check_domain)
               THEN h' = [Exempt(h, "is_trusted_domain") EXCEPT
                            !.lookup = TrustedDomain]
               ELSE h' = [h EXCEPT !.pc = "classify",
                                   !.lookup = TrustedDomain,
                                   !.trace = Append(@, "not trusted")]
    /\ UNCHANGED nmsgs /\ StoreUnchanged /\ ConfigUnchanged /\ TextUnchanged

\* (a variant that stores the classifier's probability as it comes)
ClassifyNoComplement ==
    /\ h.pc = "classify"
    /\ \/ h' = handle_DATA_except(h, "classify_email raised")
       \/ \E prediction \in classify_email(preprocess_email(h.raw).subject,
                                             preprocess_email(h.raw).body) :
             h' = [h EXCEPT !.pc = "log_prediction",
                            !.prediction = prediction,
                            !.predicted_label = prediction.label,
                            !.phishing_probability = prediction.probability,
                            !.risk_level = _phishing_risk_level(prediction.probability),
                            !.reason = "model_prediction",
                            !.trace = Append(@, "classify_email")]
    /\ UNCHANGED nmsgs /\ StoreUnchanged /\ ConfigUnchanged /\ TextUnchanged

\* (a variant that turns a classifier failure into a legitimate verdict)
ClassifyDefaultLegitimate ==
    /\ h.pc = "classify"
    /\ \/ h' = [h EXCEPT !.pc = "log_prediction",
                         !.predicted_label = "legitimate",
                         !.phishing_probability = 0,
                         !.risk_level = "LOW",
                         !.reason = "model_prediction",
                         !.trace = Append(@, "classify_email raised")]
       \/ \E prediction \in classify_email(preprocess_email(h.raw).subject,
                                             preprocess_email(h.raw).body) :
             LET phishing_probability ==
                     IF prediction.label = "legitimate"
                     THEN One - prediction.probability
                     ELSE prediction.probability
             IN  h' = [h EXCEPT !.pc = "log_prediction",
                                !.prediction = prediction,
                                !.predicted_label = prediction.label,
                                !.phishing_probability = phishing_probability,
                                !.risk_level = _phishing_risk_level(phishing_probability),
                                !.reason = "model_prediction",
                                !.trace = Append(@, "classify_email")]
    /\ UNCHANGED nmsgs /\ StoreUnchanged /\ ConfigUnchanged /\ TextUnchanged

\* (a variant that takes the risk tier of the classifier's own probability)
ClassifyTierOfConfidence ==
    /\ h.pc = "classify"
    /\ \/ h' = handle_DATA_except(h, "classify_email raised")
       \/ \E prediction \in classify_email(preprocess_email(h.raw).subject,
                                             preprocess_email(h.raw).body) :
             LET phishing_probability ==
                     IF prediction.label = "legitimate"
                     THEN One - prediction.probability
                     ELSE prediction.probability
             IN  h' = [h EXCEPT !.pc = "log_prediction",
                                !.prediction = prediction,
                                !.predicted_label = prediction.label,
                                !.phishing_probability = phishing_probability,
                                !.risk_level = _phishing_risk_level(prediction.probability),
                                !.reason = "model_prediction",
                                !.trace = Append(@, "classify_email")]
    /\ UNCHANGED nmsgs /\ StoreUnchanged /\ ConfigUnchanged /\ TextUnchanged

\* prediction = DETECTOR.classify_email(...), the complement and the risk tier
Classify ==
    /\ h.pc = "classify"
    /\ \/ h' = handle_DATA_except(h, "classify_email raised")
       \/ \E prediction \in classify_email(preprocess_email(h.raw).subject,
                                             preprocess_email(h.raw).body) :
             LET predicted_label == prediction.label
                 phishing_probability ==
                     IF predicted_label = "legitimate"
                     THEN One - prediction.probability
                     ELSE prediction.probability
             IN  h' = [h EXCEPT !.pc = "log_prediction",
                                !.prediction = prediction,
                                !.predicted_label = predicted_label,
                                !.phishing_probability = phishing_probability,
                                !.risk_level = _phishing_risk_level(phishing_probability),
                                !.reason = "model_prediction",
                                !.trace = Append(@, "classify_email")]
    /\ UNCHANGED nmsgs /\ StoreUnchanged /\ ConfigUnchanged /\ TextUnchanged

\* (a variant that hands the verdict over without waiting for the store)
LogPredictionFireAndForget ==
    /\ h.pc = "log_prediction"
    /\ h' = [h EXCEPT !.pc = "reply", !.trace = Append(@, "log_prediction")]
    /\ UNCHANGED <<nmsgs, EmailEvent, Prediction, TrustedDomain>> /\ ConfigUnchanged /\ TextUnchanged

\* DB_MANAGER.log_prediction(...)
LogPrediction ==
    /\ h.pc = "log_prediction"
    /\ \E store_ok \in BOOLEAN :
          IF store_ok /\ CanLogPrediction(h.email_event_id)
          THEN /\ Prediction' = Append(Prediction,
                     NewPrediction(h.email_event_id, h.phishing_probability,
                                   h.predicted_label, h.risk_level))
               /\ h' = [h EXCEPT !.pc = "reply",
                                 !.trace = Append(@, "log_prediction")]
          ELSE /\ h' = handle_DATA_except(h, "log_prediction raised")
               /\ UNCHANGED Prediction
    /\ UNCHANGED <<nmsgs, EmailEvent, TrustedDomain>> /\ ConfigUnchanged /\ TextUnchanged

\* (a variant that lets a failure of the relay reach handle_DATA)
SendScanReplyPropagates ==
    /\ h.pc = "reply"
    /\ IF ~reply_enabled
       THEN h' = Return(h, "reply disabled", OK250)
       ELSE \E relay_ok \in BOOLEAN :
               h' = IF relay_ok THEN Return(h, "reply sent", OK250)
                    ELSE handle_DATA_except(h, "reply failed")
    /\ UNCHANGED nmsgs /\ StoreUnchanged /\ ConfigUnchanged /\ TextUnchanged

\* send_scan_reply(...), best effort, then return "250 OK"
SendScanReply ==
    /\ h.pc = "reply"
    /\ IF ~reply_enabled
       THEN h' = Return(h, "reply disabled", OK250)
       ELSE \E relay_ok \in BOOLEAN :
               h' = Return(h, IF relay_ok THEN "reply sent" ELSE "reply failed", OK250)
    /\ UNCHANGED nmsgs /\ StoreUnchanged /\ ConfigUnchanged /\ TextUnchanged

\* DatabaseManager.add_trusted_domain, called by a client of the store
AddTrustedDomain ==
    /\ program = "smtp_server"
    /\ \E row \in TrustedCandidates :
          /\ ~is_trusted_domain(row.userId, row.domain)
          /\ TrustedDomain' = TrustedDomain \cup {row}
    /\ UNCHANGED <<h, nmsgs, EmailEvent, Prediction>> /\ ConfigUnchanged /\ TextUnchanged

-----------------------------------------------------------------------------
(* PhishingDetector.handle_DATA, the handler of phishing_detector.main *)

\* the return at the end of handle_DATA, whatever happened before it
DReturn(hh, step) == Return(hh, step, Accepted250)

DReceive ==
    /\ program = "phishing_detector"
    /\ h.pc \in {"idle", "done"}
    /\ nmsgs < MaxMsgs
    /\ \E sender_email \in Senders, raw_message \in RawMessages :
          h' = [Idle EXCEPT !.pc = "d_preprocess", !.sender_email = sender_email,
                            !.raw = raw_message]
    /\ nmsgs' = nmsgs + 1
    /\ StoreUnchanged /\ ConfigUnchanged /\ TextUnchanged

\* extracted_data = self.preprocess_email(email_content)
DPreprocess ==
    /\ h.pc = "d_preprocess"
    /\ LET extracted_data == preprocess_email(h.raw)
       IN  IF ~extracted_data.ok
           THEN h' = DReturn(h, "Failed to extract email content")
           ELSE h' = [h EXCEPT !.pc = "d_whitelist",
                               !.original_sender = extracted_data.original_sender,
                               !.trace = Append(@, "preprocess_email")]
    /\ UNCHANGED nmsgs /\ StoreUnchanged /\ ConfigUnchanged /\ TextUnchanged

\* the address the detector's own handler finds whitelisted, None when none
whitelisted_address(sender, original_sender) ==
    IF is_whitelisted(sender) THEN sender
    ELSE IF Truthy(original_sender) /\ is_whitelisted(original_sender)
    THEN original_sender
    ELSE None

DWhitelistCheck ==
    /\ h.pc = "d_whitelist"
    /\ LET address == whitelisted_address(h.sender_email, h.original_sender)
       IN  IF Truthy(address)
           THEN h' = [DReturn(h, "whitelisted") EXCEPT
                        !.trusted_address = address,
                        !.prediction = [label |-> "legitimate", probability |-> One],
                        !.predicted_label = "legitimate",
                        !.reason = "whitelisted_domain"]
           ELSE h' = [h EXCEPT !.pc = "d_classify",
                               !.trace = Append(@, "not whitelisted")]
    /\ UNCHANGED nmsgs /\ StoreUnchanged /\ ConfigUnchanged /\ TextUnchanged

\* result = self.classify_email(subject, body); an exception is printed
DClassify ==
    /\ h.pc = "d_classify"
    /\ \/ h' = DReturn(h, "classify_email raised")
       \/ \E result \in classify_email(preprocess_email(h.raw).subject,
                                         preprocess_email(h.raw).body) :
             h' = [DReturn(h, "classify_email") EXCEPT
                     !.prediction = result,
                     !.predicted_label = result.label,
                     !.reason = "model_prediction"]
    /\ UNCHANGED nmsgs /\ StoreUnchanged /\ ConfigUnchanged /\ TextUnchanged

-----------------------------------------------------------------------------
(* The specification *)

Init ==
    /\ program \in {"smtp_server", "phishing_detector"}
    /\ \E args \in CommandLines :
          /\ whitelist_domains =
                 PhishingDetector_init(IF program = "smtp_server"
                                       THEN _resolve_whitelist(args)
                                       ELSE main_whitelist_domains(args))
          /\ reply_enabled = (program = "smtp_server" /\ args.reply)
    /\ EmailEvent = <<>>
    /\ Prediction = <<>>
    /\ TrustedDomain = {}
    /\ h = Idle
    /\ nmsgs = 0
    /\ pre = NoCall

Next ==
    \/ Receive
    \/ Retry
    \/ GetUser
    \/ Preprocess
    \/ LogEmailEvent
    \/ TrustCheck
    \/ Classify
    \/ LogPrediction
    \/ SendScanReply
    \/ AddTrustedDomain
    \/ DReceive
    \/ DPreprocess
    \/ DWhitelistCheck
    \/ DClassify

Spec == Init /\ [][Next]_vars

-----------------------------------------------------------------------------
(* The text functions on their own: _remove_invisible_unicode, once and    *)
(* again, and _clean_text, of a text and of a normalized text              *)

\* the pieces of the texts: words, an entity and its halves, a letter whose
\* lower case is two characters, invisible characters, a symbol, a blank
Pieces ==
    {<<"h", "i">>,
     <<"a">>,
     <<" ", "x", " ">>,
     <<"p", "a", "y", " ">>,
     <<CapitalIDot, CapitalIDot>>,
     <<"&">>,
     <<"a", "m", "p", ";">>,
     <<SoftHyphen>>,
     <<"U+200B">>,
     <<"U+0301">>,
     <<"!">>,
     <<" ">>}

\* the texts of n pieces or less
RECURSIVE Concatenations(_)
Concatenations(n) ==
    IF n = 0 THEN {<<>>}
    ELSE Concatenations(n - 1)
             \cup {t \o piece : t \in Concatenations(n - 1), piece \in Pieces}

Texts == Concatenations(MaxPieces)

TextInit ==
    /\ program = "text"
    /\ whitelist_domains = DefaultWhitelist
    /\ reply_enabled = FALSE
    /\ EmailEvent = <<>>
    /\ Prediction = <<>>
    /\ TrustedDomain = {}
    /\ h = Idle
    /\ nmsgs = 0
    /\ \E text \in Texts :
          pre = [pc |-> "text", text |-> text, normalized |-> None,
                 renormalized |-> None, input |-> None, cleaned |-> None]

HandlerUnchanged ==
    UNCHANGED <<program, whitelist_domains, reply_enabled, EmailEvent, Prediction,
                TrustedDomain, h, nmsgs>>

\* normalized = self._remove_invisible_unicode(text)
CallRemoveInvisibleUnicode ==
    /\ program = "text" /\ pre.pc = "text"
    /\ pre' = [pre EXCEPT !.pc = "normalized",
                          !.normalized = _remove_invisible_unicode(pre.text)]
    /\ HandlerUnchanged

\* self._remove_invisible_unicode(normalized)
CallRemoveInvisibleUnicodeAgain ==
    /\ program = "text" /\ pre.pc = "normalized"
    /\ pre' = [pre EXCEPT !.pc = "renormalized",
                          !.renormalized = _remove_invisible_unicode(pre.normalized)]
    /\ HandlerUnchanged

\* self._clean_text(input), of the text as it came (as the subject is
\* cleaned) or of the normalized text (as the body is cleaned)
CallCleanText ==
    /\ program = "text" /\ pre.pc = "renormalized"
    /\ \E input \in {pre.text, pre.normalized} :
          pre' = [pre EXCEPT !.pc = "cleaned", !.input = input,
                             !.cleaned = _clean_text(input)]
    /\ HandlerUnchanged

TextNext ==
    \/ CallRemoveInvisibleUnicode
    \/ CallRemoveInvisibleUnicodeAgain
    \/ CallCleanText

TextSpec == TextInit /\ [][TextNext]_vars

-----------------------------------------------------------------------------
(* preprocess_email on its own: the steps from the parsed message to the   *)
(* dictionary it returns                                                   *)

a_b_com ==
    <<"a", "@", "b", ".", "c", "o", "m">>

FwdInvoice ==
    <<"F", "w", "d", ":", " ", "I", "n", "v", "o", "i", "c", "e">>

ForwardedInvoice ==
    <<"-", "-", "-", "-", "-", "-", "-", "-", "-", "-", " ", "F", "o", "r",
      "w", "a", "r", "d", "e", "d", " ", "m", "e", "s", "s", "a", "g", "e",
      " ", "-", "-", "-", "-", "-", "-", "-", "-", "-", "\n", "F", "r", "o",
      "m", ":", " ", "a", "@", "b", ".", "c", "o", "m", "\n", "S", "u", "b",
      "j", "e", "c", "t", ":", " ", "I", "n", "v", "o", "i", "c", "e", "\n",
      "\n", "P", "a", "y", " ", "n", "o", "w">>

Markup ==
    <<"<", "h", "t", "m", "l", ">", "<", "b", "o", "d", "y", ">", "<", "p",
      ">", "C", "o", "n", "f", "i", "r", "m", " ", "y", "o", "u", "r", " ",
      "p", "a", "s", "s", "w", "o", "r", "d", " ", "&", "a", "m", "p", ";",
      " ", "w", "i", "n", " ", "a", " ", "p", "r", "i", "z", "e", "<", "/",
      "p", ">", "<", "/", "b", "o", "d", "y", ">", "<", "/", "h", "t", "m",
      "l", ">">>

\* a part of a message, as _extract_body reads it
Part(content_type, content_disposition, content) ==
    [content_type |-> content_type, content_disposition |-> content_disposition,
     content |-> content]

\* the parts of the messages: text/plain of 5, of exactly 50 once stripped and
\* of more than 50 characters, text/html, and a text/plain attachment
Parts ==
    LET
        Hello ==
            <<"H", "e", "l", "l", "o">>
        FiftyCharacters ==
            <<" ", " ", "P", "a", "y", " ", "t", "h", "e", " ", "i", "n",
              "v", "o", "i", "c", "e", " ", "n", "o", "w", " ", "t", "o",
              " ", "k", "e", "e", "p", " ", "y", "o", "u", "r", " ", "a",
              "c", "c", "o", "u", "n", "t", " ", "o", "p", "e", "n", ",",
              " ", "o", "k", ".", "\n">>
        LongText ==
            <<"D", "e", "a", "r", " ", "u", "s", "e", "r", ",", " ", "p",
              "a", "y", " ", "t", "h", "e", " ", "i", "n", "v", "o", "i",
              "c", "e", " ", "n", "o", "w", " ", "t", "o", " ", "k", "e",
              "e", "p", " ", "y", "o", "u", "r", " ", "a", "c", "c", "o",
              "u", "n", "t", " ", "r", "u", "n", "n", "i", "n", "g", ".",
              "\n">>
        OtherLongText ==
            <<"Y", "o", "u", "r", " ", "p", "a", "r", "c", "e", "l", " ",
              "c", "o", "u", "l", "d", " ", "n", "o", "t", " ", "b", "e",
              " ", "d", "e", "l", "i", "v", "e", "r", "e", "d", ",", " ",
              "c", "o", "n", "f", "i", "r", "m", " ", "y", "o", "u", "r",
              " ", "a", "d", "d", "r", "e", "s", "s", " ", "t", "o", "d",
              "a", "y", ".", "\n">>
        ReportText ==
            <<"Q", "u", "a", "r", "t", "e", "r", "l", "y", " ", "r", "e",
              "p", "o", "r", "t", " ", "o", "f", " ", "t", "h", "e", " ",
              "a", "c", "c", "o", "u", "n", "t", "s", " ", "p", "a", "y",
              "a", "b", "l", "e", ",", " ", "f", "o", "r", " ", "t", "h",
              "e", " ", "b", "o", "a", "r", "d", " ", "m", "e", "m", "b",
              "e", "r", "s", ".", "\n">>
        OtherMarkup ==
            <<"<", "p", ">", "S", "e", "c", "o", "n", "d", " ", "o", "f",
              "f", "e", "r", "<", "/", "p", ">">>
    IN  {Part("text/plain", <<>>, Hello),
         Part("text/plain", <<>>, FiftyCharacters),
         Part("text/plain", <<>>, LongText),
         Part("text/plain", <<>>, OtherLongText),
         Part("text/html", <<>>, Markup),
         Part("text/html", <<>>, OtherMarkup),
         Part("text/plain", attachment, ReportText)}

\* the sequences of n parts or less, but the empty one
RECURSIVE PartLists(_)
PartLists(n) ==
    IF n = 1 THEN {<<part>> : part \in Parts}
    ELSE PartLists(n - 1)
             \cup {Append(parts, part) : parts \in PartLists(n - 1), part \in Parts}

\* the parsed messages: flat ones, with a forwarded invoice, a sender cue within
\* a line, a short text or markup as their body and with or without
\* X-Original-From, and multipart ones
Messages ==
    LET
        NoteFrom ==
            <<"N", "o", "t", "e", " ", "f", "r", "o", "m", ":", " ", "a",
              "@", "b", ".", "c", "o", "m", "\n", "P", "a", "y", " ", "n",
              "o", "w">>
    IN  {[subject |-> subject, is_multipart |-> FALSE, parts |-> <<part>>,
          x_original_from |-> original_from, in_reply_to |-> None] :
            subject \in {FwdInvoice, <<>>},
            part \in {Part("text/plain", <<>>, ForwardedInvoice),
                      Part("text/plain", <<>>, NoteFrom),
                      Part("text/plain", <<>>, <<"h", "i">>),
                      Part("text/html", <<>>, Markup)},
            original_from \in {None, EveCue}}
        \cup
        {[subject |-> FwdInvoice, is_multipart |-> TRUE, parts |-> parts,
          x_original_from |-> None, in_reply_to |-> None] :
            parts \in PartLists(MaxParts)}

PreprocessInit ==
    /\ program = "preprocess_email"
    /\ whitelist_domains = DefaultWhitelist
    /\ reply_enabled = FALSE
    /\ EmailEvent = <<>>
    /\ Prediction = <<>>
    /\ TrustedDomain = {}
    /\ h = Idle
    /\ nmsgs = 0
    /\ \E msg \in Messages :
          pre = [pc |-> "message_from_bytes", msg |-> msg, subject |-> None,
                 body |-> None, original_sender |-> None,
                 original_subject |-> None, original_body |-> None,
                 cleaned_subject |-> None, cleaned_body |-> None,
                 result |-> [subject |-> None, body |-> None,
                             original_subject |-> None, original_body |-> None,
                             original_sender |-> None]]

\* msg = message_from_bytes(...); subject = msg.get('subject', '')
MessageFromBytes ==
    /\ program = "preprocess_email" /\ pre.pc = "message_from_bytes"
    /\ pre' = [pre EXCEPT !.pc = "_extract_body", !.subject = pre.msg.subject]
    /\ HandlerUnchanged

\* body = self._extract_body(msg)
ExtractBody ==
    /\ program = "preprocess_email" /\ pre.pc = "_extract_body"
    /\ pre' = [pre EXCEPT !.pc = "_remove_invisible_unicode",
                          !.body = _extract_body(pre.msg)]
    /\ HandlerUnchanged

\* body = self._remove_invisible_unicode(body)
RemoveInvisibleUnicode ==
    /\ program = "preprocess_email" /\ pre.pc = "_remove_invisible_unicode"
    /\ pre' = [pre EXCEPT !.pc = "get_original_sender",
                          !.body = _remove_invisible_unicode(pre.body)]
    /\ HandlerUnchanged

\* original_sender = self.get_original_sender(body, msg)
GetOriginalSender ==
    /\ program = "preprocess_email" /\ pre.pc = "get_original_sender"
    /\ pre' = [pre EXCEPT !.pc = "_extract_forwarded_content",
                          !.original_sender =
                              get_original_sender(
                                  [body_cue |-> body_cue(pre.body),
                                   x_original_from |-> pre.msg.x_original_from,
                                   in_reply_to |-> pre.msg.in_reply_to])]
    /\ HandlerUnchanged

\* original_subject, original_body = self._extract_forwarded_content(subject, body)
ExtractForwardedContent ==
    /\ program = "preprocess_email" /\ pre.pc = "_extract_forwarded_content"
    /\ LET unwrapped == _extract_forwarded_content(pre.subject, pre.body)
       IN  pre' = [pre EXCEPT !.pc = "_clean_text",
                              !.original_subject = unwrapped.original_subject,
                              !.original_body = unwrapped.original_body]
    /\ HandlerUnchanged

\* cleaned_subject = self._clean_text(original_subject)
\* cleaned_body = self._clean_text(original_body); return {...}
CleanText ==
    /\ program = "preprocess_email" /\ pre.pc = "_clean_text"
    /\ LET cleaned_subject == _clean_text(pre.original_subject)
           cleaned_body == _clean_text(pre.original_body)
       IN  pre' = [pre EXCEPT !.pc = "return",
                              !.cleaned_subject = cleaned_subject,
                              !.cleaned_body = cleaned_body,
                              !.result = [subject |-> cleaned_subject,
                                          body |-> cleaned_body,
                                          original_subject |-> pre.subject,
                                          original_body |-> pre.body,
                                          original_sender |-> pre.original_sender]]
    /\ HandlerUnchanged

PreprocessNext ==
    \/ MessageFromBytes
    \/ ExtractBody
    \/ RemoveInvisibleUnicode
    \/ GetOriginalSender
    \/ ExtractForwardedContent
    \/ CleanText

PreprocessSpec == PreprocessInit /\ [][PreprocessNext]_vars

-----------------------------------------------------------------------------
(* The record store under its clients: add_trusted_domain and              *)
(* log_prediction, each call in a session of its own, called at the same   *)
(* time by the threads or processes that share the database file           *)

Clients == 1..MaxClients

\* the calls of the clients: add_trusted_domain of the candidate pairs, and
\* log_prediction of a verdict for the EmailEvent 1, which the store holds,
\* and for the EmailEvent 2, which it does not hold
Calls ==
    {[op |-> "add_trusted_domain", user_id |-> row.userId, domain |-> row.domain,
      email_event_id |-> 0, phishing_prob |-> 0, predicted_label |-> "",
      risk_level |-> ""] : row \in TrustedCandidates}
    \cup
    {[op |-> "log_prediction", user_id |-> 0, domain |-> <<>>,
      email_event_id |-> id, phishing_prob |-> verdict[1],
      predicted_label |-> verdict[2], risk_level |-> verdict[3]] :
        id \in {1, 2},
        verdict \in {<<0, "legitimate", "LOW">>, <<HighThreshold, "phishing", "HIGH">>}}

StoreInit ==
    /\ program = "store"
    /\ whitelist_domains = DefaultWhitelist
    /\ reply_enabled = FALSE
    /\ EmailEvent = <<[id |-> 1, userId |-> 1, senderDomain |-> evil_test,
                       isForwarded |-> FALSE, messageIdHash |-> None, msg |-> 1]>>
    /\ Prediction = <<>>
    /\ TrustedDomain = {}
    /\ h = Idle
    /\ nmsgs = 1
    /\ \E calls \in [Clients -> Calls] :
          pre = [pc |-> "store",
                 client |-> [c \in Clients |->
                                [pc |-> "call", call |-> calls[c], result |-> ""]]]

\* the end of a call: the value returned, or the exception that left the session
Ends(c, result) ==
    [pre EXCEPT !.client[c].pc = "done", !.client[c].result = result]

\* add_trusted_domain up to "if existing": the select, and the return of the
\* row found
AddTrustedDomainSelect(c) ==
    /\ program = "store"
    /\ pre.client[c].pc = "call" /\ pre.client[c].call.op = "add_trusted_domain"
    /\ LET call == pre.client[c].call
       IN  IF is_trusted_domain(call.user_id, call.domain)
           THEN pre' = Ends(c, "returned")
           ELSE pre' = [pre EXCEPT !.client[c].pc = "commit"]
    /\ UNCHANGED <<program, whitelist_domains, reply_enabled, EmailEvent, Prediction,
                   TrustedDomain, h, nmsgs>>

\* add_trusted_domain from session.add(trusted) on: the commit of
\* _session_scope inserts the row, or raises IntegrityError for
\* UniqueConstraint("userId", "domain"), and then rolls back and raises again
AddTrustedDomainCommit(c) ==
    /\ program = "store"
    /\ pre.client[c].pc = "commit" /\ pre.client[c].call.op = "add_trusted_domain"
    /\ LET call == pre.client[c].call
       IN  IF is_trusted_domain(call.user_id, call.domain)
           THEN /\ pre' = Ends(c, "IntegrityError")
                /\ UNCHANGED TrustedDomain
           ELSE /\ TrustedDomain' =
                       TrustedDomain \cup {[userId |-> call.user_id, domain |-> call.domain]}
                /\ pre' = Ends(c, "returned")
    /\ UNCHANGED <<program, whitelist_domains, reply_enabled, EmailEvent, Prediction,
                   h, nmsgs>>

\* log_prediction up to the two "raise ValueError"
LogPredictionSelect(c) ==
    /\ program = "store"
    /\ pre.client[c].pc = "call" /\ pre.client[c].call.op = "log_prediction"
    /\ IF CanLogPrediction(pre.client[c].call.email_event_id)
       THEN pre' = [pre EXCEPT !.client[c].pc = "commit"]
       ELSE pre' = Ends(c, "ValueError")
    /\ UNCHANGED <<program, whitelist_domains, reply_enabled, EmailEvent, Prediction,
                   TrustedDomain, h, nmsgs>>

\* (a variant over a Prediction table whose emailEventId is not unique)
LogPredictionCommitNotUnique(c) ==
    /\ program = "store"
    /\ pre.client[c].pc = "commit" /\ pre.client[c].call.op = "log_prediction"
    /\ LET call == pre.client[c].call
       IN  /\ Prediction' = Append(Prediction,
                    NewPrediction(call.email_event_id, call.phishing_prob,
                                  call.predicted_label, call.risk_level))
           /\ pre' = Ends(c, "returned")
    /\ UNCHANGED <<program, whitelist_domains, reply_enabled, EmailEvent,
                   TrustedDomain, h, nmsgs>>

\* log_prediction from session.add(prediction) on: the commit of
\* _session_scope inserts the row, or raises IntegrityError because
\* Prediction.emailEventId is unique, and then rolls back and raises again
LogPredictionCommit(c) ==
    /\ program = "store"
    /\ pre.client[c].pc = "commit" /\ pre.client[c].call.op = "log_prediction"
    /\ LET call == pre.client[c].call
       IN  IF \E j \in DOMAIN Prediction :
                 Prediction[j].emailEventId = call.email_event_id
           THEN /\ pre' = Ends(c, "IntegrityError")
                /\ UNCHANGED Prediction
           ELSE /\ Prediction' = Append(Prediction,
                         NewPrediction(call.email_event_id, call.phishing_prob,
                                       call.predicted_label, call.risk_level))
                /\ pre' = Ends(c, "returned")
    /\ UNCHANGED <<program, whitelist_domains, reply_enabled, EmailEvent,
                   TrustedDomain, h, nmsgs>>

StoreNext ==
    \E c \in Clients :
       \/ AddTrustedDomainSelect(c)
       \/ AddTrustedDomainCommit(c)
       \/ LogPredictionSelect(c)
       \/ LogPredictionCommit(c)

StoreSpec == StoreInit /\ [][StoreNext]_vars

-----------------------------------------------------------------------------
(* Vocabulary of the claims *)

Router == program = "smtp_server"
Detector == program = "phishing_detector"

\* position of a completed call in the handler's trace, 0 when it was not made
Pos(step) == IF Did(step) THEN CHOOSE i \in DOMAIN h.trace : h.trace[i] = step ELSE 0

\* the unwrapped original sender of the current message, None when unresolved
OriginalSender == IF h.raw.parses THEN get_original_sender(h.raw) ELSE None

\* the effective sender: the original sender when resolved, else the direct one
EffectiveSender ==
    LET original_sender == OriginalSender
    IN  IF Truthy(original_sender) THEN original_sender ELSE h.sender_email

\* the trust decision of the current message has been taken
Decided ==
    \/ Did("is_whitelisted") \/ Did("is_trusted_domain") \/ Did("not trusted")
    \/ Did("whitelisted") \/ Did("not whitelisted")

\* the message was declared exempt from scoring
IsExempt == h.trusted_address # None

\* the classifier has been invoked, or is the next call, for the current message
ClassifierInvoked ==
    \/ h.pc \in {"classify", "d_classify"}
    \/ Did("classify_email") \/ Did("classify_email raised")

\* the user had marked the domain trusted when the handler looked it up
TrustedAtLookup(domain) ==
    \E row \in h.lookup : row.userId = h.user_id /\ row.domain = domain

\* the rows the store holds for the current message
EventsOfMessage == {i \in DOMAIN EmailEvent : EmailEvent[i].msg = nmsgs}
PredictionsOfMessage ==
    {j \in DOMAIN Prediction :
        \E i \in EventsOfMessage : EmailEvent[i].id = Prediction[j].emailEventId}

ReplySent == Did("reply sent")

-----------------------------------------------------------------------------
(* Claims *)

\* C1: in handle_smtp_email, a parsed message of a registered user whose
\* effective sender is whitelisted, or whose domain the user had marked trusted
\* when it was looked up, gets the verdict legitimate / 0.0 / LOW with a reason
\* in {whitelisted_domain, trusted_domain}; every Prediction recorded for it
\* holds exactly that, and classify_email is never invoked for it.
C1_ExemptVerdict ==
    (/\ Router /\ Decided
     /\ LET address == EffectiveSender
        IN  \/ is_whitelisted(address)
            \/ TrustedAtLookup(get_sender_domain(address)))
    => /\ ~ClassifierInvoked
       /\ h.predicted_label = "legitimate"
       /\ h.phishing_probability = 0
       /\ h.risk_level = "LOW"
       /\ h.reason \in {"whitelisted_domain", "trusted_domain"}
       /\ \A j \in PredictionsOfMessage :
             /\ Prediction[j].predictedLabel = "legitimate"
             /\ Prediction[j].phishingProbability = 0
             /\ Prediction[j].riskLevel = "LOW"

\* an exempt message whose verdict was recorded and acknowledged
C1_Witness ==
    /\ Router /\ h.resp = OK250
    /\ is_whitelisted(EffectiveSender)
    /\ PredictionsOfMessage # {}

\* C2: when an original sender was unwrapped, the whitelist check and the
\* trusted-domain lookup use its address and its domain, not the direct
\* sender's; the direct sender is used only when no original sender was
\* resolved.
C2_OriginalSenderPrecedence ==
    (Router /\ Decided)
    => LET address == EffectiveSender
           domain == get_sender_domain(address)
       IN  /\ IsExempt <=> (is_whitelisted(address) \/ TrustedAtLookup(domain))
           /\ IsExempt => h.trusted_address = address
           /\ \A i \in EventsOfMessage : EmailEvent[i].senderDomain = domain

\* user@mallory.test forwards a message of ceo@trusted.example, and
\* trusted.example is whitelisted: exempt on the original sender's account
C2_Witness ==
    /\ Router /\ Decided
    /\ h.sender_email = MalloryAddr
    /\ OriginalSender = Lower(CeoCue)
    /\ ~is_whitelisted(h.sender_email)
    /\ is_whitelisted(OriginalSender)
    /\ IsExempt

\* C3: in both handlers, a message whose direct sender is whitelisted or
\* trusted but whose unwrapped original sender is neither is not exempt: the
\* classifier is invoked for it.
C3_NoTrustFromRelay ==
    (/\ Decided
     /\ Truthy(OriginalSender)
     /\ \/ is_whitelisted(h.sender_email)
        \/ TrustedAtLookup(get_sender_domain(h.sender_email))
     /\ ~is_whitelisted(OriginalSender)
     /\ ~TrustedAtLookup(get_sender_domain(OriginalSender)))
    => ~IsExempt /\ ClassifierInvoked

\* C4: a parsed message of a registered user is exempt if and only if the
\* (lower-cased) domain of the effective sender, the text after its last '@',
\* or the parent domain made of its last two labels is in the whitelist set, or
\* is_trusted_domain(user_id, domain) held for that domain; otherwise the
\* classifier is invoked and the reason of the verdict is model_prediction.
C4_ExemptIff ==
    (Router /\ Decided)
    => LET address == EffectiveSender
           domain == IF Contains(address, "@")
                     THEN Lower(Last(Split(address, "@"))) ELSE <<>>
           labels == Split(domain, ".")
           parent == Join(LastTwo(labels), ".")
           listed == /\ Contains(address, "@")
                     /\ (domain \in whitelist_domains \/ parent \in whitelist_domains)
           exempt == listed \/ TrustedAtLookup(domain)
       IN  /\ IsExempt <=> exempt
           /\ ~exempt => /\ ClassifierInvoked
                         /\ Did("classify_email") => h.reason = "model_prediction"

\* a sender exempt through the parent domain of a three-label domain, and (as
\* a second case of the same run) nothing else
C4_Witness ==
    /\ Router /\ Decided /\ IsExempt
    /\ h.sender_email = RelayAddr
    /\ ~Truthy(OriginalSender)
    /\ get_sender_domain(h.sender_email) \notin whitelist_domains

\* C5: for a scored message the phishing probability handed to log_prediction
\* is 1 - p when the classifier returned (legitimate, p) and p when it returned
\* (phishing, p).
C5_ComplementLaw ==
    (Router /\ Did("classify_email"))
    => LET p == h.prediction.probability
           q == IF h.prediction.label = "legitimate" THEN 1000000 - p ELSE p
       IN  /\ h.phishing_probability = q
           /\ h.predicted_label = h.prediction.label
           /\ \A j \in PredictionsOfMessage :
                 /\ Prediction[j].phishingProbability = q
                 /\ Prediction[j].predictedLabel = h.prediction.label

\* (legitimate, 0.45) was stored as phishing probability 0.55
C5_Witness ==
    /\ Router /\ Did("log_prediction")
    /\ h.prediction = [label |-> "legitimate", probability |-> 450000]
    /\ \E j \in PredictionsOfMessage : Prediction[j].phishingProbability = 550000

\* the probabilities around the two thresholds, and the ends of [0, 1]
TierProbes == (549990..550010) \cup (849990..850010) \cup {0, 1000000}

TierLaw(q, risk) ==
    /\ risk = "HIGH" <=> q >= 850000
    /\ risk = "MEDIUM" <=> (550000 <= q /\ q < 850000)
    /\ risk = "LOW" <=> q < 550000

\* C6: the risk level of a phishing probability q is HIGH iff q >= 0.85,
\* MEDIUM iff 0.55 <= q < 0.85 and LOW iff q < 0.55, for the probability of
\* every scored message and for every probability around the thresholds.
C6_RiskTiers ==
    /\ (Router /\ Did("classify_email")) => TierLaw(h.phishing_probability, h.risk_level)
    /\ (Router /\ h.pc = "classify")
          => \A q \in TierProbes : TierLaw(q, _phishing_risk_level(q))

\* a message scored exactly 0.85 is HIGH
C6_Witness ==
    /\ Router /\ Did("classify_email")
    /\ h.phishing_probability = 850000
    /\ h.risk_level = "HIGH"

\* C7: when preprocess_email fails on a message, handle_smtp_email answers
\* with the 550 rejection and, for that message, no EmailEvent and no
\* Prediction is recorded, the classifier is not invoked and no reply is sent.
C7_ParseFailure ==
    (Router /\ h.pc # "idle" /\ ~h.raw.parses)
    => /\ EventsOfMessage = {}
       /\ PredictionsOfMessage = {}
       /\ ~ClassifierInvoked
       /\ ~ReplySent
       /\ (h.pc = "done" /\ Did("get_user_by_email_hash"))
              => h.resp = Rejected550Parse

C7_Witness ==
    /\ Router /\ ~h.raw.parses
    /\ h.pc = "done" /\ h.resp = Rejected550Parse

\* C8: "250 OK" is returned only after extraction, trust resolution, scoring
\* (when not exempt) and a successful log_prediction of that message, in that
\* order.
C8_AckAfterLogging ==
    (Router /\ h.resp = OK250)
    => LET extraction == Pos("preprocess_email")
           trust == Pos("is_whitelisted") + Pos("is_trusted_domain") + Pos("not trusted")
           scoring == Pos("classify_email")
           logging == Pos("log_prediction")
       IN  /\ 0 < extraction /\ extraction < trust
           /\ IF IsExempt THEN scoring = 0 /\ trust < logging
              ELSE trust < scoring /\ scoring < logging
           /\ logging < Len(h.trace)
           /\ PredictionsOfMessage # {}

C8_Witness ==
    /\ Router /\ h.resp = OK250 /\ Did("classify_email")

\* C9: if log_email_event or log_prediction raises, the handler answers 421
\* and not 250, and no scan reply was or is sent for the message; a scan reply
\* is sent only after the verdict was persisted.
C9_StoreFailure ==
    Router =>
       /\ (\/ Did("log_email_event raised")
           \/ Did("log_email_event raised IntegrityError")
           \/ Did("log_prediction raised"))
             => /\ h.pc = "done"
                /\ h.resp = TempFail421
                /\ ~ReplySent
                /\ PredictionsOfMessage = {}
       /\ ReplySent => /\ PredictionsOfMessage # {}
                       /\ Pos("log_prediction") < Pos("reply sent")

\* log_prediction raised with replies switched on
C9_Witness ==
    /\ Router /\ reply_enabled
    /\ Did("log_prediction raised")
    /\ h.resp = TempFail421

\* C10: if classify_email raises for a non-exempt message, the handler answers
\* 421, no Prediction is persisted for the message, no reply is sent, and the
\* message gets no exempt or legitimate outcome.
C10_ClassifierFailure ==
    (Router /\ Did("classify_email raised"))
    => /\ h.pc = "done"
       /\ h.resp = TempFail421
       /\ PredictionsOfMessage = {}
       /\ ~ReplySent
       /\ ~IsExempt
       /\ h.predicted_label = ""
       /\ h.risk_level = ""

C10_Witness ==
    /\ Router /\ Did("classify_email raised")
    /\ h.resp = TempFail421
    /\ EventsOfMessage # {}

\* the canonical subject and body of the current message are the empty string
DegenerateContent ==
    /\ h.raw.parses
    /\ preprocess_email(h.raw).subject = <<>>
    /\ preprocess_email(h.raw).body = <<>>

\* C11: a message that is not exempt and whose canonical subject and body are
\* the empty string gets the verdict legitimate / LOW whatever classify_email
\* returns, and the reason recorded for it is not that of a model verdict.
C11_DegenerateContent ==
    (Router /\ DegenerateContent /\ Decided /\ ~IsExempt /\ Did("classify_email"))
    => /\ h.predicted_label = "legitimate"
       /\ h.risk_level = "LOW"
       /\ h.reason # "model_prediction"

\* C12: PhishingDetector.handle_DATA answers 250 only for a message that
\* reached a verdict: not when preprocess_email failed, and not when the
\* processing raised.
C12_NoSwallowedError ==
    (Detector /\ h.pc = "done" /\ h.resp = Accepted250)
    => /\ ~Did("Failed to extract email content")
       /\ ~Did("classify_email raised")
       /\ h.predicted_label \in {"legitimate", "phishing"}

\* no User row holds the SHA-256 hash of the stripped, lower-cased sender
Unregistered ==
    \A u \in User : u.emailHash # Sha256(Lower(Strip(h.sender_email)))

\* C13: when the hash of the stripped, lower-cased envelope sender matches no
\* User, handle_smtp_email returns the 550 rejection of the sender and has not
\* preprocessed the message, recorded an EmailEvent or a Prediction for it,
\* invoked the classifier or sent a reply.
C13_RegisteredOnly ==
    (/\ Router /\ h.pc \notin {"idle", "get_user"}
     /\ ~Did("get_user_by_email_hash raised")
     /\ Unregistered)
    => /\ h.pc = "done" /\ h.resp = Rejected550Sender
       /\ h.trace = <<"unregistered">>
       /\ EventsOfMessage = {} /\ PredictionsOfMessage = {}
       /\ ~ClassifierInvoked /\ ~ReplySent

\* eve@evil.test, who is no User, was turned away
C13_Witness ==
    /\ Router /\ h.sender_email = EveAddr /\ Unregistered
    /\ h.pc = "done" /\ h.resp = Rejected550Sender

\* C19: a message whose effective sender holds no '@' is not exempt, whatever
\* the whitelist and the user's trusted domains are: the classifier is invoked.
C19_NoAtNeverExempt ==
    (Router /\ Decided /\ ~Contains(EffectiveSender, "@"))
    => ~IsExempt /\ ClassifierInvoked

\* the user had marked the domain trusted, in any letter case, when the handler
\* looked it up
TrustedAtLookupAnyCase(domain) ==
    \E row \in h.lookup : row.userId = h.user_id /\ Lower(row.domain) = Lower(domain)

\* the domain is in the whitelist set, in any letter case
WhitelistedAnyCase(domain) ==
    \E entry \in whitelist_domains : Lower(entry) = Lower(domain)

\* C20: the exemption of a message does not depend on the letter case of the
\* effective sender's domain, of the whitelist entries or of the trusted
\* domains: the message is exempt exactly when the domain, or its two-label
\* parent, equals a whitelist entry up to case, or the domain equals up to case
\* a domain the user had marked trusted.
C20_CaseInsensitive ==
    (Router /\ Decided)
    => LET address == EffectiveSender
           domain == IF Contains(address, "@")
                     THEN Last(Split(address, "@")) ELSE <<>>
           parent == Join(LastTwo(Split(domain, ".")), ".")
       IN  IsExempt <=> \/ /\ Contains(address, "@")
                            /\ (WhitelistedAnyCase(domain) \/ WhitelistedAnyCase(parent))
                        \/ TrustedAtLookupAnyCase(domain)

\* preprocess_email runs on its own, and has returned
Preprocessing == program = "preprocess_email"
Returned == Preprocessing /\ pre.pc = "return"

\* the message of the scenario: subject "Fwd: Invoice", the forwarded invoice
\* as its text body, no X-Original-From
Invoice == <<"I", "n", "v", "o", "i", "c", "e">>
ForwardScenario ==
    /\ ~pre.msg.is_multipart
    /\ pre.msg.subject = FwdInvoice
    /\ pre.msg.parts = <<Part("text/plain", <<>>, ForwardedInvoice)>>
    /\ pre.msg.x_original_from = None

\* C14: of the message whose text body is the forwarded invoice,
\* preprocess_email yields the original sender a@b.com, the unwrapped subject
\* "Invoice" and an unwrapped, canonical body that holds "pay now".
C14_ForwardScenario ==
    (Returned /\ ForwardScenario)
    => /\ pre.original_sender = a_b_com
       /\ pre.original_subject = Invoice
       /\ FindText(pre.cleaned_body, PayNow) > 0

\* the parts of a multipart message that are no attachment: the text/plain
\* ones of more than 50 characters once trimmed, and the text/html ones
Qualifying(parts) ==
    {i \in DOMAIN parts :
        /\ FindText(parts[i].content_disposition, attachment) = 0
        /\ parts[i].content_type = "text/plain"
        /\ Len(Strip(parts[i].content)) > 50}
Convertible(parts) ==
    {i \in DOMAIN parts :
        /\ FindText(parts[i].content_disposition, attachment) = 0
        /\ parts[i].content_type = "text/html"}

\* C15: the body extracted from a multipart message is its first text/plain
\* part that is no attachment and has more than 50 characters once trimmed;
\* when it has none, also when it has shorter text/plain parts, the body is
\* the text of its first text/html part that is no attachment.
C15_BodySelection ==
    (Preprocessing /\ pre.msg.is_multipart /\ pre.pc = "_remove_invisible_unicode")
    => LET parts == pre.msg.parts
       IN  IF Qualifying(parts) # {}
           THEN pre.body =
                    _remove_email_artifacts(parts[Minimum(Qualifying(parts))].content)
           ELSE Convertible(parts) # {}
                => pre.body =
                       _remove_email_artifacts(
                           _html_to_text(parts[Minimum(Convertible(parts))].content))

\* the text functions run on their own, and _clean_text has returned
TextFunctions == program = "text"
Cleaned == TextFunctions /\ pre.pc = "cleaned"

\* C16: _remove_invisible_unicode of a text it has returned is that text,
\* also when the text held entities (encoded once or twice), soft hyphens or
\* zero-width characters.
C16_NormalizerIdempotent ==
    (TextFunctions /\ pre.pc \in {"renormalized", "cleaned"})
    => pre.renormalized = pre.normalized

\* the whitespace-separated tokens of a text
Tokens(text) ==
    LET blank == [i \in DOMAIN text |-> IF IsSpace(text[i]) THEN " " ELSE text[i]]
    IN  SelectSeq(Split(blank, " "), LAMBDA token : token # <<>>)

\* C17: _clean_text returns the empty string, or a text of 5 characters or
\* more made of 2 tokens or more, each of them longer than one character or
\* "i" or "a"; of "hi" it returns the empty string.
C17_DegenerateRule ==
    Cleaned
    => /\ \/ pre.cleaned = <<>>
          \/ /\ Len(pre.cleaned) >= 5
             /\ Len(Tokens(pre.cleaned)) >= 2
             /\ \A i \in DOMAIN Tokens(pre.cleaned) :
                   LET token == Tokens(pre.cleaned)[i]
                   IN  Len(token) > 1 \/ token \in {<<"i">>, <<"a">>}
       /\ pre.input = <<"h", "i">> => pre.cleaned = <<>>

\* _clean_text was given "hi" and returned the empty string
C17_Witness ==
    Cleaned /\ pre.input = <<"h", "i">> /\ pre.cleaned = <<>>

\* C18: the text _clean_text returns for a normalized text is not longer than
\* that text.
C18_NeverLengthens ==
    (Cleaned /\ pre.input = pre.normalized)
    => Len(pre.cleaned) <= Len(pre.input)

\* _extract_forwarded_content found a forward: it took a prefix off the
\* subject or cut the body
ForwardDetected ==
    pre.original_subject # pre.subject \/ pre.original_body # pre.body

\* C21: in the dictionary preprocess_email returns, original_subject and
\* original_body are the unwrapped subject and body when a forward was
\* detected, and equal subject and body when none was.
C21_OriginalFields ==
    Returned
    => IF ForwardDetected
       THEN /\ pre.result.original_subject = pre.original_subject
            /\ pre.result.original_body = pre.original_body
       ELSE /\ pre.result.original_subject = pre.result.subject
            /\ pre.result.original_body = pre.result.body

\* the text without its zero-width space, non-joiner, joiner and BOM
WithoutZeroWidth(text) == SelectSeq(text, LAMBDA c : c \notin ZeroWidth)

\* the text holds a zero-width character, and nothing else that the
\* normalizer decodes, joins or deletes
ZeroWidthOnly(text) ==
    /\ \E i \in DOMAIN text : text[i] \in ZeroWidth
    /\ \A i \in DOMAIN text : text[i] \notin {"&", SoftHyphen} \cup CombiningMarks

\* C24: _remove_invisible_unicode deletes the zero-width characters: the
\* tokens of the normalized text are those of the text without them, so a word
\* split by such a character is one token again, never two.
C24_ZeroWidthDeleted ==
    (TextFunctions /\ pre.pc # "text" /\ ZeroWidthOnly(pre.text))
    => Tokens(pre.normalized) = Tokens(WithoutZeroWidth(pre.text))

\* the email addresses that occur in a text
AddressesIn(text) == {AddressAt(text, i) : i \in DOMAIN text} \ {None}

\* C25: _clean_text removes every email address of its input as a whole: no
\* token of the canonical body is the domain of an address that the body held.
C25_AddressesRedacted ==
    Returned
    => \A address \in AddressesIn(pre.original_body) :
          \A j \in DOMAIN Tokens(pre.cleaned_body) :
             Tokens(pre.cleaned_body)[j] # Lower(Last(Split(address, "@")))

\* C26: every Prediction that handle_smtp_email has stored is consistent: its
\* riskLevel is the tier of its phishingProbability, which lies between 0.0
\* and 1.0, and the Prediction of a message exempted as trusted or whitelisted
\* is legitimate, 0.0 and LOW.
C26_PredictionConsistent ==
    \A j \in DOMAIN Prediction :
       /\ Prediction[j].riskLevel = _phishing_risk_level(Prediction[j].phishingProbability)
       /\ Prediction[j].phishingProbability >= 0
       /\ Prediction[j].phishingProbability <= One
       /\ (j \in PredictionsOfMessage /\ h.reason = "trusted_domain")
          => /\ Prediction[j].predictedLabel = "legitimate"
             /\ Prediction[j].phishingProbability = 0
             /\ Prediction[j].riskLevel = "LOW"

\* the Prediction of an exempt message is stored
C26_Witness ==
    /\ Router /\ Did("log_prediction") /\ h.reason = "trusted_domain"
    /\ PredictionsOfMessage # {}

\* C28: when handle_smtp_email has answered a message with 550 or 421, the
\* store holds no row for that message; every EmailEvent of a message whose
\* handler has returned has exactly one Prediction.
C28_NoRowUnlessProcessed ==
    (Router /\ h.pc = "done")
    => /\ h.resp # OK250 => EventsOfMessage = {} /\ PredictionsOfMessage = {}
       /\ \A i \in EventsOfMessage :
             Cardinality({j \in DOMAIN Prediction :
                             Prediction[j].emailEventId = EmailEvent[i].id}) = 1

\* the current message carries a sender cue in its body or an X-Original-From
\* header
CarriesForward ==
    h.raw.body_cue # None \/ Truthy(h.raw.x_original_from)

\* C29: handle_smtp_email checks another address than the direct sender, and
\* logs the event as forwarded, only when the body holds a sender cue or the
\* message an X-Original-From header; a reply whose In-Reply-To holds a
\* Message-ID keeps the direct sender, and is exempt only through the direct
\* sender's own domain.
C29_ReplyKeepsDirectSender ==
    (Router /\ Did("preprocess_email"))
    => /\ h.check_address # h.sender_email => CarriesForward
       /\ \A i \in EventsOfMessage : EmailEvent[i].isForwarded => CarriesForward
       /\ (IsExempt /\ ~CarriesForward)
          => \/ is_whitelisted(h.sender_email)
             \/ TrustedAtLookup(get_sender_domain(h.sender_email))

\* C23: send_scan_reply sends nothing when replies are disabled; when the
\* relay fails, handle_smtp_email still answers 250 and the Prediction it
\* stored for the message is the verdict it reached.
C23_ReplyBestEffort ==
    /\ (Router /\ ~reply_enabled) => ~ReplySent
    /\ (Router /\ h.pc = "done" /\ (Did("reply disabled") \/ Did("reply failed")))
       => /\ h.resp = OK250
          /\ Cardinality(PredictionsOfMessage) = 1
          /\ \A j \in PredictionsOfMessage :
                /\ Prediction[j].predictedLabel = h.predicted_label
                /\ Prediction[j].phishingProbability = h.phishing_probability
                /\ Prediction[j].riskLevel = h.risk_level

\* the relay failed for a message whose verdict was stored
C23_Witness ==
    Router /\ reply_enabled /\ h.pc = "done" /\ Did("reply failed")

\* the delivery before this one was answered 421 because the classifier or
\* log_prediction raised
FailedAfterLogging ==
    h.attempt > 1 /\ h.previous \in {"classify_email raised", "log_prediction raised"}

\* in this delivery neither the store nor the classifier was out of order
Working ==
    ~ \/ Did("get_user_by_email_hash raised")
      \/ Did("log_email_event raised")
      \/ Did("is_trusted_domain raised")
      \/ Did("classify_email raised")
      \/ Did("log_prediction raised")

\* C27: a message with a Message-Id that was answered 421 because the
\* classifier or log_prediction raised, and is delivered again while the
\* classifier and the store work, ends with a stored verdict and the answer
\* 250. (Every delivery ends after a bounded number of calls, so that the
\* retry succeeds eventually is a statement about the state it ends in.)
C27_RetrySucceeds ==
    (Router /\ FailedAfterLogging /\ Truthy(h.raw.message_id)
        /\ h.pc = "done" /\ Working)
    => h.resp = OK250 /\ PredictionsOfMessage # {}

\* the clients of the record store run; a call of a client has ended
StoreClients == program = "store"
Ended(c, op) == pre.client[c].pc = "done" /\ pre.client[c].call.op = op

\* C22: whatever the clients call and however their calls interleave, each
\* EmailEvent has one Prediction at most and each Prediction an EmailEvent; a
\* log_prediction for an EmailEvent that has a Prediction, or that does not
\* exist, raises and stores nothing, and the row of the call that returned
\* stays as that call wrote it.
C22_OnePredictionPerEvent ==
    StoreClients
    => /\ \A j \in DOMAIN Prediction :
             /\ \E i \in DOMAIN EmailEvent : EmailEvent[i].id = Prediction[j].emailEventId
             /\ \A k \in DOMAIN Prediction :
                   Prediction[k].emailEventId = Prediction[j].emailEventId => k = j
       /\ Len(Prediction) =
             Cardinality({c \in Clients : /\ Ended(c, "log_prediction")
                                          /\ pre.client[c].result = "returned"})
       /\ \A c \in Clients :
             (Ended(c, "log_prediction") /\ pre.client[c].result = "returned")
             => \E j \in DOMAIN Prediction :
                   /\ Prediction[j].emailEventId = pre.client[c].call.email_event_id
                   /\ Prediction[j].phishingProbability = pre.client[c].call.phishing_prob
                   /\ Prediction[j].predictedLabel = pre.client[c].call.predicted_label
                   /\ Prediction[j].riskLevel = pre.client[c].call.risk_level

\* two clients logged a Prediction for the same EmailEvent at the same time:
\* one returned, the other one raised at its commit
C22_Witness ==
    /\ StoreClients
    /\ \E c, d \in Clients :
          /\ Ended(c, "log_prediction") /\ pre.client[c].result = "returned"
          /\ Ended(d, "log_prediction") /\ pre.client[d].result = "IntegrityError"
          /\ pre.client[c].call.email_event_id = pre.client[d].call.email_event_id

\* C30: add_trusted_domain never raises, also when two clients call it for
\* the same pair at the same time: every call returns, and the pair is
\* trusted afterwards.
C30_AddTrustedDomainIdempotent ==
    StoreClients
    => \A c \in Clients :
          Ended(c, "add_trusted_domain")
          => /\ pre.client[c].result = "returned"
             /\ is_trusted_domain(pre.client[c].call.user_id, pre.client[c].call.domain)

=============================================================================
